---- MODULE Spec2Model ----
(***************************************************************************)
(* KnowledgeBot ingestion pipeline: the FastAPI orchestrator               *)
(* (source/FastAPI_Processor/main.py), the storage adapter                 *)
(* (source/Document_Vectorization/vector_storage.py) and the parts of the  *)
(* document parser (source/Document_Preprocessing/document_parser.py) the  *)
(* orchestrator calls; the command-line pipeline                           *)
(* (source/Document_Vectorization/main.py) and the fixed-length splitter   *)
(* of source/Document_Vectorization/document_chunking.py.                  *)
(***************************************************************************)
EXTENDS Integers, Sequences, FiniteSets, TLC

(***************************************************************************)
(* Bounds of the model.                                                    *)
(***************************************************************************)
\* tasks ever created in the in-memory registry
MaxTasks == 2
\* background tasks running at the same time (the workers that run them)
MaxRunning == 1
\* file paths in one batch or delete request
MaxBatch == 2
\* chunks in one direct call of store_vectors
MaxChunks == 3
\* the command-line pipeline is started while the key counters of the two
\* stores are at most this
MaxKeys == 2
\* calls of process_document are made while each store holds at most this
\* many chunks
MaxStored == 3
\* input vectors have up to this many entries, or up to this many fewer or
\* more than the dimension
MaxOff == 2
\* the fillings of the input vectors
MaxPatterns == 8
\* characters in a text given to the splitter
MaxText == 6
\* chunk_size and min_chunk_size of a splitter go up to this, chunk_overlap
\* one further
MaxSize == 4
\* the splitter is followed while it has produced fewer pieces than this
MaxPieces == 6
\* pieces a document given to chunk_document is put together from
MaxBlocks == 3
\* chunk_size and min_chunk_size of the chunkers that chunk_document is
\* called on go up to this, chunk_overlap two further
MaxUnit == 2
\* timeout of wait_for_completion, in seconds
MaxTimeout == 3
\* check_interval of wait_for_completion, in seconds
MaxInterval == 2
\* seconds a status request can take
MaxPollTime == 1
\* files in the directory of a command-line batch
MaxFiles == 2
\* runs of the command-line batch over its directory
MaxRuns == 2

(***************************************************************************)
(* Program constants.                                                      *)
(***************************************************************************)
\* main.py:409 and document_parser.py:155: ids above this are taken to be
\* provisional (timestamp) ids
ProvisionalThreshold == 1000000000
\* vector_storage.py:701/722: int(time.time() * 1000); any value above the
\* threshold that fits TLC's integers stands for it
FallbackId == 2000000000
\* Document_Vectorization/main.py:273: int(time.time()), the file id the
\* command-line pipeline gives its chunks
Timestamp == 1700000000

(***************************************************************************)
(* The file system.  A path is (directory, name, extension).               *)
(***************************************************************************)
PathTxt  == [dir |-> "docs", name |-> "a", ext |-> ".txt"]
PathPdf  == [dir |-> "docs", name |-> "b", ext |-> ".pdf"]
PathExe  == [dir |-> "docs", name |-> "c", ext |-> ".exe"]
PathGone == [dir |-> "docs", name |-> "d", ext |-> ".md"]
\* a file of the same name in another directory
PathTxtCopy == [dir |-> "archive", name |-> "a", ext |-> ".txt"]
\* a second text file of the directory the command-line batch runs over
PathMd == [dir |-> "docs", name |-> "e", ext |-> ".md"]
\* the paths the requests to the API name
Paths == {PathTxt, PathPdf, PathExe, PathGone}
\* os.path.exists for the source files
ExistingFiles == {PathTxt, PathPdf, PathExe, PathTxtCopy, PathMd}
KbCodes == {"kb1", "kb2"}

Stages == <<"preprocessing", "chunking", "vectorization", "indexing", "storage">>
StageNames == {Stages[i] : i \in 1..Len(Stages)}

VARIABLES
  task_statuses,        \* main.py:147, the registry: sequence of task records
  pc,                   \* per task: position in process_document_complete
  loc,                  \* per task: local variables of process_document_complete
  doc_documents,        \* metadata store: path -> document row
  next_doc_id,          \* AUTO_INCREMENT of doc_documents
  doc_document_chunks,  \* metadata store: chunk rows
  doc_parse_batches,    \* metadata store: document ids with a parse-batch row
  milvus,               \* vector store: inserted records
  next_pk,              \* auto_id of the vector collection
  next_chunk_row,       \* AUTO_INCREMENT of doc_document_chunks
  md_files,             \* names whose converted markdown file exists
  next_batch,           \* batch ids handed out
  request,              \* the last request received
  response,             \* the reply to it
  call,                 \* the storage-adapter calls of the last operation
  chunks_output         \* the cached chunk files: base name -> the list saved

taskVars == <<task_statuses, pc, loc>>
storeVars == <<doc_documents, next_doc_id, doc_document_chunks, next_chunk_row,
               doc_parse_batches, milvus, next_pk, md_files>>
apiVars == <<next_batch, request, response>>
cliVars == <<chunks_output>>
vars == <<taskVars, storeVars, apiVars, call, cliVars>>

NoRequest == [op |-> "none"]
NoResponse == [code |-> 0]
NoCall == [op |-> "none"]

(***************************************************************************)
(* main.py:174-188                                                         *)
(***************************************************************************)
get_file_extension(file_path) == file_path.ext

is_preprocessing_required(file_path) ==
  get_file_extension(file_path) \in {".doc", ".docx", ".pdf"}

is_direct_processing_supported(file_path) ==
  get_file_extension(file_path) \in {".md", ".markdown", ".xlsx", ".xls", ".csv", ".txt"}

SeqsUpTo(S, n) == UNION {[1..k -> S] : k \in 0..n}

\* the least index of a set of indexes, 0 for the empty set: the element at
\* which a loop over the list stops
FirstOf(bad) == IF bad = {} THEN 0 ELSE CHOOSE i \in bad : \A j \in bad : i <= j

\* a variant that checks existence only
validate_lenient(file_paths) ==
  LET i == FirstOf({k \in 1..Len(file_paths) : file_paths[k] \notin ExistingFiles})
  IN IF Len(file_paths) = 0 THEN [ok |-> FALSE, detail |-> "no_file_paths", at |-> 0]
     ELSE IF i = 0 THEN [ok |-> TRUE, detail |-> "", at |-> 0]
     ELSE [ok |-> FALSE, detail |-> "file_missing", at |-> i]

\* main.py:190-205: the ValueError raised, or the accepted list
validate_batch_request(file_paths) ==
  LET Bad(p) == \/ p \notin ExistingFiles
                \/ ~(is_preprocessing_required(p) \/ is_direct_processing_supported(p))
      i == FirstOf({k \in 1..Len(file_paths) : Bad(file_paths[k])})
  IN IF Len(file_paths) = 0 THEN [ok |-> FALSE, detail |-> "no_file_paths", at |-> 0]
     ELSE IF i = 0 THEN [ok |-> TRUE, detail |-> "", at |-> 0]
     ELSE IF file_paths[i] \notin ExistingFiles
          THEN [ok |-> FALSE, detail |-> "file_missing", at |-> i]
          ELSE [ok |-> FALSE, detail |-> "unsupported_format", at |-> i]

AllPending == [s \in StageNames |-> "pending"]

\* main.py:651-666
NewTask(batch_id, file_path) ==
  [status |-> "pending", progress |-> AllPending, result |-> "none",
   error |-> "none", batch_id |-> batch_id, file_path |-> file_path,
   klg_base_code |-> "none"]

\* locals of process_document_complete before it runs
NoLocals ==
  [klg_base_code |-> "none", file_hash |-> "none",
   content |-> "none", chunks |-> <<>>, document_id |-> 0, exc |-> "none",
   swallowed |-> {}]

RECURSIVE NewTasks(_, _)
NewTasks(batch_id, file_paths) ==
  IF file_paths = <<>> THEN <<>>
  ELSE <<NewTask(batch_id, Head(file_paths))>> \o NewTasks(batch_id, Tail(file_paths))

(***************************************************************************)
(* POST /batch-process, main.py:586-693.  Validation comes first; only an  *)
(* accepted request creates tasks, one per path, each queued as a          *)
(* background task.                                                        *)
(***************************************************************************)
batch_process_documents(file_paths, klg_base_code) ==
  LET v == validate_batch_request(file_paths) IN
  /\ Len(task_statuses) < MaxTasks
  /\ Len(task_statuses) + Len(file_paths) <= MaxTasks
  /\ request' = [op |-> "batch_process", file_paths |-> file_paths,
                 klg_base_code |-> klg_base_code]
  /\ IF ~v.ok
     THEN /\ response' = [code |-> 400, detail |-> v.detail, at |-> v.at]
          /\ UNCHANGED <<taskVars, next_batch>>
     ELSE /\ task_statuses' = task_statuses \o NewTasks(next_batch, file_paths)
          /\ pc' = pc \o [i \in 1..Len(file_paths) |-> "queued"]
          /\ loc' = loc \o [i \in 1..Len(file_paths) |->
                              [NoLocals EXCEPT !.klg_base_code = klg_base_code]]
          /\ next_batch' = next_batch + 1
          /\ response' = [code |-> 200, batch_id |-> next_batch,
                          total_files |-> Len(file_paths), status |-> "processing"]
  /\ UNCHANGED <<storeVars, call, cliVars>>

SubmitBatch ==
  \E file_paths \in SeqsUpTo(Paths, MaxBatch), kb \in {"kb1"} :
    batch_process_documents(file_paths, kb)

(***************************************************************************)
(* GET /batch-status/{batch_id}, main.py:695-734                           *)
(***************************************************************************)
BatchTasks(batch_id) ==
  {t \in 1..Len(task_statuses) : task_statuses[t].batch_id = batch_id}

StatusCount(members, s) == Cardinality({t \in members : task_statuses[t].status = s})

\* a variant that looks for unfinished members first
overall_prefers_processing(members) ==
  IF StatusCount(members, "processing") > 0 \/ StatusCount(members, "pending") > 0
  THEN "processing"
  ELSE IF StatusCount(members, "failed") > 0 THEN "failed"
  ELSE "completed"

\* main.py:719-725
overall_status(members) ==
  IF StatusCount(members, "failed") > 0 THEN "failed"
  ELSE IF StatusCount(members, "processing") > 0 \/ StatusCount(members, "pending") > 0
       THEN "processing"
  ELSE "completed"

\* the reply of the handler, a function of the registry alone
get_batch_status(batch_id) ==
  LET members == BatchTasks(batch_id) IN
  IF members = {}
  THEN [code |-> 404]
  ELSE [code |-> 200, batch_id |-> batch_id,
        total_tasks |-> Cardinality(members),
        overall_status |-> overall_status(members)]

(***************************************************************************)
(* Chunks as the pipeline passes them around: Python dicts.  A key that is *)
(* not set is Absent.                                                      *)
(***************************************************************************)
Absent == -1
\* vector_storage.py:188, 280: the dimension of the collection
Dim == 768

\* document_chunking.py:103-112: the chunker sets "content" and "metadata";
\* chunk_id lives inside "metadata", not at the top level.  The content is
\* the n-th piece of the text of the file src.
ChunkerChunk(src, n) ==
  [content |-> <<src, n>>, chunk_id |-> Absent, chunk_index |-> Absent,
   file_id |-> Absent, original_file_id |-> Absent, vector |-> Absent,
   vector_id |-> Absent]

\* the chunk list chunk_document returns for a content
ContentKinds == {"empty", "text"}
ChunkCount(content) == IF content = "empty" THEN 0 ELSE 2
chunk_document(content, file_path) ==
  [i \in 1..ChunkCount(content) |-> ChunkerChunk(file_path, i - 1)]

\* text_vectorization.py:52-57, 228-231: every chunk gets a vector of 768 entries
vectorize(chunks) == [i \in 1..Len(chunks) |-> [chunks[i] EXCEPT !.vector = Dim]]

(***************************************************************************)
(* vector_storage.py:251-355, _store_vectors_milvus.  vectors[i] is the    *)
(* length of the i-th vector, Absent for None or a non-list.  The store    *)
(* hands out the primary keys pk, pk+1, ... in the order of insert_data.   *)
(***************************************************************************)
ValidIdx(vectors) == {i \in 1..Len(vectors) : vectors[i] # Absent}

\* the rank of i among the valid indexes: its position in insert_data
Rank(vectors, i) == Cardinality({j \in ValidIdx(vectors) : j <= i})

\* vector_storage.py:280-288
NormalizedLen(n) == IF n > Dim THEN Dim ELSE n + (Dim - n)

\* a normalisation that keeps the end of a long vector and pads a short one
\* in front
normalize_vector_tail(vector) ==
  IF Len(vector) > Dim THEN SubSeq(vector, Len(vector) - Dim + 1, Len(vector))
  ELSE [i \in 1..(Dim - Len(vector)) |-> 0] \o vector

\* vector_storage.py:280-288, on the entries: vector[:768] for a long
\* vector, np.pad(vector, (0, 768 - len(vector)), 'constant') for a short one
normalize_vector(vector) ==
  IF Len(vector) = Dim THEN vector
  ELSE IF Len(vector) > Dim THEN SubSeq(vector, 1, Dim)
  ELSE vector \o [i \in 1..(Dim - Len(vector)) |-> 0]

\* vector_storage.py:291-297: only schema fields are inserted; chunk_id
\* defaults to the position in the list, chunk_index to 0; file_id is no
\* schema field and is never inserted
InsertRecord(vectors, metadata_list, i, pk) ==
  [id |-> pk + Rank(vectors, i) - 1,
   dim |-> NormalizedLen(vectors[i]),
   chunk_id |-> IF metadata_list[i].chunk_id = Absent THEN i - 1
                ELSE metadata_list[i].chunk_id,
   chunk_index |-> IF metadata_list[i].chunk_index = Absent THEN 0
                   ELSE metadata_list[i].chunk_index,
   content |-> metadata_list[i].content,
   file_id |-> Absent]

InsertData(vectors, metadata_list, pk) ==
  {InsertRecord(vectors, metadata_list, i, pk) : i \in ValidIdx(vectors)}

\* vector_storage.py:322-334: the i-th chunk of the input gets the i-th
\* primary key, as long as there are keys
UpdatedChunks(vectors, metadata_list, pk) ==
  [i \in 1..Len(metadata_list) |->
     IF i - 1 < Cardinality(ValidIdx(vectors))
     THEN [metadata_list[i] EXCEPT !.vector_id = pk + i - 1]
     ELSE metadata_list[i]]

\* vector_storage.py:219-249, store_vectors: the chunks returned and the
\* records the store acknowledged.  insert_ok is whether Milvus accepts the
\* insert (get-or-create of the collection, insert, flush).
store_vectors(vector_db, chunks, insert_ok, pk) ==
  LET vectors == [i \in 1..Len(chunks) |-> chunks[i].vector]
      metadata_list == [i \in 1..Len(chunks) |-> [chunks[i] EXCEPT !.vector = Absent]]
  IN IF ~vector_db THEN [chunks |-> chunks, inserted |-> {}, outcome |-> "not_connected"]
     ELSE IF ~insert_ok THEN [chunks |-> chunks, inserted |-> {}, outcome |-> "insert_error"]
     ELSE IF ValidIdx(vectors) = {}
          THEN [chunks |-> chunks, inserted |-> {}, outcome |-> "nothing_to_insert"]
     ELSE [chunks |-> UpdatedChunks(vectors, metadata_list, pk),
           inserted |-> InsertData(vectors, metadata_list, pk),
           outcome |-> "inserted"]

(***************************************************************************)
(* The metadata store, as vector_storage.py and document_parser.py use it. *)
(* Statuses '0', '1', '2' are the numbers 0, 1, 2.                         *)
(***************************************************************************)
HasDoc(docs, path) == path \in DOMAIN docs

\* vector_storage.py:535-582, update_document_status: an UPDATE by path; no
\* row, or a database error (db_ok false), changes nothing and is not raised
update_document_status(docs, path, status, db_ok) ==
  IF db_ok /\ HasDoc(docs, path) THEN [docs EXCEPT ![path].status = status] ELSE docs

\* vector_storage.py:584-727, save_document_info: update the row of the path
\* or insert one with status '0'; on any error the fallback id
save_document_info(docs, next_id, path, file_hash, kb, db_ok) ==
  IF ~db_ok THEN [docs |-> docs, next_id |-> next_id, id |-> FallbackId]
  ELSE IF HasDoc(docs, path)
  THEN [docs |-> [docs EXCEPT ![path].file_hash = file_hash,
                              ![path].knlg_base_code = kb],
        next_id |-> next_id, id |-> docs[path].id]
  ELSE [docs |-> docs @@ (path :> [id |-> next_id, status |-> 0,
                                   file_hash |-> file_hash, knlg_base_code |-> kb]),
        next_id |-> next_id + 1, id |-> next_id]

\* main.py:409-440: the re-query by (path, file_hash) for a provisional id
requery_document_id(docs, document_id, path, file_hash, db_ok) ==
  IF document_id > ProvisionalThreshold
     /\ db_ok /\ HasDoc(docs, path) /\ docs[path].file_hash = file_hash
  THEN docs[path].id
  ELSE document_id

DocIds(docs) == {docs[p].id : p \in DOMAIN docs}

\* document_parser.py:141-192, _create_parse_batch: the batch id, or None
\* (ok false).  For a durable id the row is looked up by id and path and
\* hash are unpacked from the row, a dict, which yields its column names.
create_parse_batch(batches, docs, document_id, db_ok) ==
  LET is_fallback_id == document_id > ProvisionalThreshold IN
  IF ~db_ok THEN [ok |-> FALSE, batches |-> batches]
  ELSE IF ~is_fallback_id /\ document_id \notin DocIds(docs)
  THEN [ok |-> FALSE, batches |-> batches]
  ELSE [ok |-> TRUE,
        batches |-> batches \cup
          {[document_id |-> document_id,
            source |-> IF is_fallback_id THEN "arguments" ELSE "column_names"]}]

\* Python's "a or b or c" over ids: the first that is set and not 0
FirstTruthy(a, b, c) ==
  IF a # Absent /\ a # 0 THEN a ELSE IF b # Absent /\ b # 0 THEN b ELSE c

\* vector_storage.py:357-436, store_metadata.  A non-positive id raises
\* ValueError to the caller; any error inside the loop (a chunk without
\* "chunk_index", a failed INSERT) is printed, nothing is committed and the
\* call returns normally.
store_metadata(rows, next_row, chunks, document_id, db_ok) ==
  IF document_id <= 0
  THEN [outcome |-> "value_error", rows |-> rows, next_row |-> next_row]
  ELSE IF ~db_ok
  THEN [outcome |-> "db_error", rows |-> rows, next_row |-> next_row]
  ELSE IF \E i \in 1..Len(chunks) : chunks[i].chunk_index = Absent
  THEN [outcome |-> "key_error", rows |-> rows, next_row |-> next_row]
  ELSE [outcome |-> "written",
        rows |-> rows \cup
          {[id |-> next_row + i - 1,
            document_id |-> document_id,
            file_id |-> FirstTruthy(chunks[i].original_file_id, chunks[i].file_id,
                                    document_id),
            chunk_index |-> chunks[i].chunk_index,
            content |-> chunks[i].content,
            vector_id |-> chunks[i].vector_id] : i \in 1..Len(chunks)},
        next_row |-> next_row + Len(chunks)]

(***************************************************************************)
(* process_document_complete(task_id, file_path, klg_base_code),           *)
(* main.py:215-508, one background task per accepted file.  Every write to *)
(* the registry is a step of its own, so that every state a status reader  *)
(* can see is a state of the model.  What the collaborators do (database,  *)
(* vector store, conversion service, file system) is chosen by \E.         *)
(***************************************************************************)
Tasks == 1..Len(task_statuses)

\* md5 of the file's bytes, main.py:753-763
Hash(path) == path.name

Goto(t, l) == pc' = [pc EXCEPT ![t] = l]

\* the function is left (by return, or by SystemExit): its locals are gone
Leave(t, l) ==
  /\ pc' = [pc EXCEPT ![t] = l]
  /\ loc' = [loc EXCEPT ![t] = NoLocals]

\* an exception leaves the try block and "except Exception as e" makes its
\* first write, main.py:489-491: status = 'failed'
Raise(t, msg) ==
  /\ pc' = [pc EXCEPT ![t] = "except_error"]
  /\ loc' = [loc EXCEPT ![t].exc = msg]
  /\ task_statuses' = [task_statuses EXCEPT ![t].status = "failed"]

\* one progress dict shared by the tasks of a batch
SetProgress_shared(t, stage, v) ==
  task_statuses' =
    [u \in DOMAIN task_statuses |->
       IF task_statuses[u].batch_id = task_statuses[t].batch_id
       THEN [task_statuses[u] EXCEPT !.progress[stage] = v]
       ELSE task_statuses[u]]

SetProgress(t, stage, v) ==
  task_statuses' = [task_statuses EXCEPT ![t].progress[stage] = v]

Running == {u \in Tasks : pc[u] \notin {"queued", "done", "escaped"}}

\* main.py:219-266
BeginTask(t) ==
  /\ pc[t] = "queued"
  /\ LET path == task_statuses[t].file_path IN
     IF path \notin ExistingFiles
     THEN Raise(t, "file_missing")
     ELSE /\ task_statuses' =
               [task_statuses EXCEPT ![t].status = "processing",
                                     ![t].progress = AllPending,
                                     ![t].klg_base_code = loc[t].klg_base_code]
          /\ loc' = [loc EXCEPT ![t].file_hash = Hash(path)]
          /\ Goto(t, "log_file")
  /\ UNCHANGED <<storeVars, apiVars, call, cliVars>>

\* a worker takes the queued task while fewer than MaxRunning tasks run
Begin(t) == Cardinality(Running) < MaxRunning /\ BeginTask(t)

\* main.py:247-266: the log directory is listed and the newest log file
\* chosen; the file system may refuse
LogFile(t) ==
  /\ pc[t] = "log_file"
  /\ \/ Raise(t, "log_error")
     \/ Goto(t, "format") /\ UNCHANGED <<task_statuses, loc>>
  /\ UNCHANGED <<storeVars, apiVars, call, cliVars>>

\* main.py:269-270, 308-310, 326-327: the dispatch on the extension
Format(t) ==
  /\ pc[t] = "format"
  /\ LET path == task_statuses[t].file_path IN
     IF is_preprocessing_required(path)
     THEN /\ SetProgress(t, "preprocessing", "processing")
          /\ Goto(t, "parse")
          /\ UNCHANGED loc
     ELSE IF is_direct_processing_supported(path)
     THEN \/ Raise(t, "read_failed")
          \/ \E c \in ContentKinds :
               /\ loc' = [loc EXCEPT ![t].content = c]
               /\ SetProgress(t, "preprocessing", "skipped")
               /\ Goto(t, "status_parsed")
     ELSE Raise(t, "unsupported_format")
  /\ UNCHANGED <<storeVars, apiVars, call, cliVars>>

\* main.py:277-294: DocumentParser() exits the interpreter (sys.exit(1),
\* document_parser.py:64, 84) when the database cannot be reached: SystemExit
\* is no Exception and leaves process_document_complete.  parse_document
\* writes the placeholder markdown file when it can (document_parser.py:717).
Parse(t) ==
  /\ pc[t] = "parse"
  /\ LET name == task_statuses[t].file_path.name IN
     \/ Leave(t, "escaped") /\ UNCHANGED <<task_statuses, md_files>>
     \/ Raise(t, "preprocess_failed") /\ UNCHANGED md_files
     \/ \E written \in BOOLEAN :
          /\ md_files' = IF written THEN md_files \cup {name} ELSE md_files
          /\ IF name \notin md_files'
             THEN Raise(t, "no_markdown")
             ELSE \/ Raise(t, "read_failed")
                  \/ /\ loc' = [loc EXCEPT ![t].content = "text"]
                     /\ SetProgress(t, "preprocessing", "completed")
                     /\ Goto(t, "parsed_flag")
  /\ UNCHANGED <<doc_documents, next_doc_id, doc_document_chunks, next_chunk_row,
                 doc_parse_batches, milvus, next_pk, apiVars, call, cliVars>>

\* the methods of DocumentParser whose name starts with _update_document
\* (document_parser.py:229)
DocumentParserMethods == {"_update_document_parsed_status"}

\* main.py:298: a call of a method the class does not define raises
\* AttributeError
ParsedFlag(t) ==
  /\ pc[t] = "parsed_flag"
  /\ IF "_update_document_parsed_status_by_path" \in DocumentParserMethods
     THEN Goto(t, "status_parsed") /\ UNCHANGED <<task_statuses, loc>>
     ELSE Raise(t, "attribute_error")
  /\ UNCHANGED <<storeVars, apiVars, call, cliVars>>

\* main.py:300, 319: update_document_status(file_path, '1')
StatusParsed(t) ==
  /\ pc[t] = "status_parsed"
  /\ \E db_ok \in BOOLEAN :
       doc_documents' =
         update_document_status(doc_documents, task_statuses[t].file_path, 1, db_ok)
  /\ Goto(t, "chunk_start")
  /\ UNCHANGED <<task_statuses, loc, next_doc_id, doc_document_chunks, next_chunk_row,
                 doc_parse_batches, milvus, next_pk, md_files, apiVars, call, cliVars>>

\* main.py:330
ChunkStart(t) ==
  /\ pc[t] = "chunk_start"
  /\ SetProgress(t, "chunking", "processing")
  /\ Goto(t, "chunk")
  /\ UNCHANGED <<loc, storeVars, apiVars, call, cliVars>>

\* main.py:337-344
Chunk(t) ==
  /\ pc[t] = "chunk"
  /\ LET chunks == chunk_document(loc[t].content, task_statuses[t].file_path) IN
     IF chunks = <<>>
     THEN Raise(t, "chunking_failed")
     ELSE /\ loc' = [loc EXCEPT ![t].chunks = chunks]
          /\ SetProgress(t, "chunking", "completed")
          /\ Goto(t, "vectorize_start")
  /\ UNCHANGED <<storeVars, apiVars, call, cliVars>>

\* main.py:352
VectorizeStart(t) ==
  /\ pc[t] = "vectorize_start"
  /\ SetProgress(t, "vectorization", "processing")
  /\ Goto(t, "vectorize")
  /\ UNCHANGED <<loc, storeVars, apiVars, call, cliVars>>

\* main.py:359-365: the embedding call may raise; its result has one vector
\* per chunk
Vectorize(t) ==
  /\ pc[t] = "vectorize"
  /\ \/ Raise(t, "vectorize_error")
     \/ LET vectorized_chunks == vectorize(loc[t].chunks) IN
        IF vectorized_chunks = <<>>
        THEN Raise(t, "vectorization_failed")
        ELSE /\ loc' = [loc EXCEPT ![t].chunks = vectorized_chunks]
             /\ SetProgress(t, "vectorization", "completed")
             /\ Goto(t, "index_start")
  /\ UNCHANGED <<storeVars, apiVars, call, cliVars>>

\* a variant that marks the storage stage instead of the indexing stage
IndexStartAhead(t) ==
  /\ pc[t] = "index_start"
  /\ SetProgress(t, "storage", "processing")
  /\ Goto(t, "index")
  /\ UNCHANGED <<loc, storeVars, apiVars, call, cliVars>>

\* main.py:373
IndexStart(t) ==
  /\ pc[t] = "index_start"
  /\ SetProgress(t, "indexing", "processing")
  /\ Goto(t, "index")
  /\ UNCHANGED <<loc, storeVars, apiVars, call, cliVars>>

\* main.py:380-385: os.makedirs of the index directory, then completed
Index(t) ==
  /\ pc[t] = "index"
  /\ \/ Raise(t, "index_dir_error")
     \/ /\ SetProgress(t, "indexing", "completed")
        /\ Goto(t, "storage_start")
        /\ UNCHANGED loc
  /\ UNCHANGED <<storeVars, apiVars, call, cliVars>>

\* main.py:393
StorageStart(t) ==
  /\ pc[t] = "storage_start"
  /\ SetProgress(t, "storage", "processing")
  /\ Goto(t, "save_document")
  /\ UNCHANGED <<loc, storeVars, apiVars, call, cliVars>>

\* an orchestrator that takes every id as it comes
after_save_trusting(document_id) == "create_batch"

\* main.py:409: an id above the threshold is re-queried before it is used
after_save(document_id) ==
  IF document_id > ProvisionalThreshold THEN "requery" ELSE "create_batch"

\* main.py:403-405
SaveDocument(t) ==
  /\ pc[t] = "save_document"
  /\ \E db_ok \in BOOLEAN :
       LET r == save_document_info(doc_documents, next_doc_id, task_statuses[t].file_path,
                                   loc[t].file_hash, loc[t].klg_base_code, db_ok)
       IN /\ doc_documents' = r.docs
          /\ next_doc_id' = r.next_id
          /\ IF r.id = 0
             THEN Raise(t, "save_document_failed")
             ELSE /\ loc' = [loc EXCEPT ![t].document_id = r.id]
                  /\ Goto(t, after_save(r.id))
                  /\ UNCHANGED task_statuses
  /\ UNCHANGED <<doc_document_chunks, next_chunk_row, doc_parse_batches,
                 milvus, next_pk, md_files, apiVars, call, cliVars>>

\* main.py:409-440, the body of "if document_id > 1000000000"
Requery(t) ==
  /\ pc[t] = "requery"
  /\ \E db_ok \in BOOLEAN :
       loc' = [loc EXCEPT ![t].document_id =
                 requery_document_id(doc_documents, loc[t].document_id,
                                     task_statuses[t].file_path, loc[t].file_hash, db_ok)]
  /\ Goto(t, "create_batch")
  /\ UNCHANGED <<task_statuses, storeVars, apiVars, call, cliVars>>

\* main.py:443-450: DocumentParser() may exit the interpreter as in Parse;
\* then the batch row, then file_id of every chunk is the document id
CreateBatch(t) ==
  /\ pc[t] = "create_batch"
  /\ \/ Leave(t, "escaped") /\ UNCHANGED <<task_statuses, doc_parse_batches>>
     \/ \E db_ok \in BOOLEAN :
          LET r == create_parse_batch(doc_parse_batches, doc_documents,
                                      loc[t].document_id, db_ok)
          IN /\ doc_parse_batches' = r.batches
             /\ IF ~r.ok
                THEN Raise(t, "batch_record_failed")
                ELSE /\ loc' = [loc EXCEPT ![t].chunks =
                                  [i \in 1..Len(loc[t].chunks) |->
                                     [loc[t].chunks[i] EXCEPT
                                        !.file_id = loc[t].document_id]]]
                     /\ Goto(t, "store_vectors")
                     /\ UNCHANGED task_statuses
  /\ UNCHANGED <<doc_documents, next_doc_id, doc_document_chunks,
                 next_chunk_row, milvus, next_pk, md_files, apiVars, call, cliVars>>

\* main.py:453.  vector_storage.vector_db was set when the adapter was
\* constructed (main.py:228) and is read here for the first time.
StoreVectors(t) ==
  /\ pc[t] = "store_vectors"
  /\ \E vector_db, insert_ok \in BOOLEAN :
       LET r == store_vectors(vector_db, loc[t].chunks, insert_ok, next_pk) IN
       /\ milvus' = milvus \cup r.inserted
       /\ next_pk' = next_pk + Cardinality(r.inserted)
       /\ loc' = [loc EXCEPT ![t].chunks = r.chunks,
                             ![t].swallowed =
                                IF r.outcome = "inserted" THEN @ ELSE @ \cup {"no_vectors"}]
  /\ Goto(t, "store_metadata")
  /\ UNCHANGED <<task_statuses, doc_documents, next_doc_id, doc_document_chunks,
                 next_chunk_row, doc_parse_batches, md_files, apiVars, call, cliVars>>

\* main.py:455
StoreMetadata(t) ==
  /\ pc[t] = "store_metadata"
  /\ \E db_ok \in BOOLEAN :
       LET r == store_metadata(doc_document_chunks, next_chunk_row, loc[t].chunks,
                               loc[t].document_id, db_ok)
       IN /\ doc_document_chunks' = r.rows
          /\ next_chunk_row' = r.next_row
          /\ IF r.outcome = "value_error"
             THEN Raise(t, "value_error")
             ELSE /\ loc' = [loc EXCEPT ![t].swallowed =
                               IF r.outcome = "written" THEN @ ELSE @ \cup {"no_rows"}]
                  /\ Goto(t, "storage_done")
                  /\ UNCHANGED task_statuses
  /\ UNCHANGED <<doc_documents, next_doc_id, doc_parse_batches,
                 milvus, next_pk, md_files, apiVars, call, cliVars>>

\* main.py:456
StorageDone(t) ==
  /\ pc[t] = "storage_done"
  /\ SetProgress(t, "storage", "completed")
  /\ Goto(t, "status_vectorized")
  /\ UNCHANGED <<loc, storeVars, apiVars, call, cliVars>>

\* main.py:464: update_document_status(file_path, '2')
StatusVectorized(t) ==
  /\ pc[t] = "status_vectorized"
  /\ \E db_ok \in BOOLEAN :
       doc_documents' =
         update_document_status(doc_documents, task_statuses[t].file_path, 2, db_ok)
  /\ Goto(t, "set_completed")
  /\ UNCHANGED <<task_statuses, loc, next_doc_id, doc_document_chunks, next_chunk_row,
                 doc_parse_batches, milvus, next_pk, md_files, apiVars, call, cliVars>>

\* main.py:472
SetCompleted(t) ==
  /\ pc[t] = "set_completed"
  /\ task_statuses' = [task_statuses EXCEPT ![t].status = "completed"]
  /\ Goto(t, "set_result")
  /\ UNCHANGED <<loc, storeVars, apiVars, call, cliVars>>

\* the names bound in process_document_complete when line 473 is reached
\* (its parameters and the locals assigned on the way), and the names the
\* result dict of main.py:473-481 reads
BoundNames ==
  {"task_id", "file_path", "klg_base_code", "file_hash", "vector_storage", "content",
   "md_file_path", "chunker", "file_id", "chunks", "vectorizer", "vectorized_chunks",
   "index_dir", "document_id", "parser", "batch_id", "updated_chunks"}
ResultNames == {"file_path", "md_file_path", "chunks", "vectorized_chunks", "vectors",
                "file_hash"}

\* main.py:473-481: building the dict raises NameError for a name that is
\* not bound, before the assignment to ['result']
SetResult(t) ==
  /\ pc[t] = "set_result"
  /\ IF ResultNames \subseteq BoundNames
     THEN /\ task_statuses' = [task_statuses EXCEPT ![t].result = "set"]
          /\ Leave(t, "done")
     ELSE Raise(t, "name_error")
  /\ UNCHANGED <<storeVars, apiVars, call, cliVars>>

\* main.py:492
ExceptError(t) ==
  /\ pc[t] = "except_error"
  /\ task_statuses' = [task_statuses EXCEPT ![t].error = loc[t].exc]
  /\ Leave(t, "done")
  /\ UNCHANGED <<storeVars, apiVars, call, cliVars>>

process_document_complete(t) ==
  \/ Begin(t) \/ LogFile(t) \/ Format(t) \/ Parse(t) \/ ParsedFlag(t) \/ StatusParsed(t)
  \/ ChunkStart(t) \/ Chunk(t) \/ VectorizeStart(t) \/ Vectorize(t)
  \/ IndexStart(t) \/ Index(t) \/ StorageStart(t) \/ SaveDocument(t)
  \/ Requery(t) \/ CreateBatch(t) \/ StoreVectors(t) \/ StoreMetadata(t)
  \/ StorageDone(t) \/ StatusVectorized(t) \/ SetCompleted(t) \/ SetResult(t)
  \/ ExceptError(t)

RunTask == \E t \in Tasks : process_document_complete(t)

\* the background tasks of main.py:669 as the thread pool runs them: any
\* queued task may start, whatever else is running
process_document_complete_unlimited(t) ==
  \/ BeginTask(t) \/ LogFile(t) \/ Format(t) \/ Parse(t) \/ ParsedFlag(t)
  \/ StatusParsed(t) \/ ChunkStart(t) \/ Chunk(t) \/ VectorizeStart(t) \/ Vectorize(t)
  \/ IndexStart(t) \/ Index(t) \/ StorageStart(t) \/ SaveDocument(t)
  \/ Requery(t) \/ CreateBatch(t) \/ StoreVectors(t) \/ StoreMetadata(t)
  \/ StorageDone(t) \/ StatusVectorized(t) \/ SetCompleted(t) \/ SetResult(t)
  \/ ExceptError(t)

RunTasksConcurrently == \E t \in Tasks : process_document_complete_unlimited(t)

(***************************************************************************)
(* The status handler as a request of its own: it reads the registry and   *)
(* replies.                                                                *)
(***************************************************************************)
GetBatchStatus ==
  \E batch_id \in 1..(MaxTasks + 1) :
    /\ request' = [op |-> "batch_status", batch_id |-> batch_id]
    /\ response' = get_batch_status(batch_id)
    /\ UNCHANGED <<taskVars, storeVars, next_batch, call, cliVars>>

(***************************************************************************)
(* A direct call of store_vectors, vector_storage.py:219-249: the chunk    *)
(* list is the caller's, the connection and the store's answer are the     *)
(* environment's.                                                          *)
(***************************************************************************)
StoreVectorsCall ==
  /\ call.op = "store_vectors"
  /\ call.outcome = "pending"
  /\ \E vector_db, insert_ok \in BOOLEAN :
       LET r == store_vectors(vector_db, call.chunks, insert_ok, next_pk) IN
       /\ call' = [call EXCEPT !.returned = r.chunks, !.inserted = r.inserted,
                               !.outcome = r.outcome]
       /\ milvus' = milvus \cup r.inserted
       /\ next_pk' = next_pk + Cardinality(r.inserted)
  /\ UNCHANGED <<taskVars, doc_documents, next_doc_id, doc_document_chunks,
                 next_chunk_row, doc_parse_batches, md_files, apiVars, cliVars>>

(***************************************************************************)
(* The command-line pipeline, Document_Vectorization/main.py:113-330,      *)
(* process_document(file_path, skip_processed): one call, start to return. *)
(***************************************************************************)
\* main.py:163-178 (command line): the extensions whose content is read
cli_readable(file_path) ==
  get_file_extension(file_path) \in {".txt", ".md", ".markdown", ".csv", ".xlsx"}

\* main.py:273-278, 307-310 (command line): every chunk gets the timestamp
\* as file_id and its position as chunk_index; original_file_id keeps the
\* timestamp when file_id becomes the document id
cli_chunks(chunks, doc_id) ==
  [i \in 1..Len(chunks) |->
     [chunks[i] EXCEPT !.chunk_index = i - 1, !.original_file_id = Timestamp,
                       !.file_id = doc_id]]

\* os.path.basename: the file name with its extension, without directory
basename(file_path) == <<file_path.name, file_path.ext>>

\* a cache check that never finds a chunk file
has_no_cached_chunks(output, file_path) == FALSE

\* main.py:152-159 and 362-375 (command line): the chunk file of the base
\* name exists, is not empty and holds a non-empty list
has_cached_chunks(output, file_path) ==
  /\ basename(file_path) \in DOMAIN output
  /\ output[basename(file_path)] # <<>>

\* main.py:351-380 (command line), is_file_processed
is_file_processed(output, file_path) == has_cached_chunks(output, file_path)

\* main.py:113-349 (command line).  st holds the stores and the chunk files,
\* env what the file and the collaborators do.  The result: the stores
\* afterwards, the list returned, and the collaborators called in order.
process_document(st, file_path, skip_processed, env) ==
  LET vectorized_chunks == vectorize(chunk_document(env.content, file_path))
      d == save_document_info(st.docs, st.next_doc_id, file_path,
                              Hash(file_path), "none", env.db_save)
      stored_chunks == cli_chunks(vectorized_chunks, d.id)
      v == store_vectors(env.vector_db, stored_chunks, env.insert_ok, st.next_pk)
      m == store_metadata(st.rows, st.next_row, v.chunks, d.id, env.db_meta)
  IN IF skip_processed /\ has_cached_chunks(st.output, file_path)
     THEN [st |-> st, returned |-> st.output[basename(file_path)], steps |-> <<>>]
     ELSE IF \/ ~cli_readable(file_path)
             \/ file_path \notin ExistingFiles
             \/ env.content = "empty"
     THEN [st |-> st, returned |-> <<>>, steps |-> <<>>]
     ELSE [st |-> [docs |-> d.docs, next_doc_id |-> d.next_id,
                   vecs |-> st.vecs \cup v.inserted,
                   next_pk |-> st.next_pk + Cardinality(v.inserted),
                   rows |-> m.rows, next_row |-> m.next_row,
                   output |-> (basename(file_path) :> vectorized_chunks) @@ st.output],
           returned |-> stored_chunks,
           steps |-> <<"chunk_document", "vectorize", "save_document_info",
                       "store_vectors", "store_metadata">>]

\* the state process_document works on
CliState ==
  [docs |-> doc_documents, next_doc_id |-> next_doc_id, vecs |-> milvus,
   next_pk |-> next_pk, rows |-> doc_document_chunks, next_row |-> next_chunk_row,
   output |-> chunks_output]

\* what the file holds and what the collaborators do; a collaborator that
\* is not called (nothing is stored for an empty file, nothing is inserted
\* without a connection) has no outcome of its own
CliEnvs ==
  {e \in [content : ContentKinds, db_save : BOOLEAN, db_meta : BOOLEAN,
          vector_db : BOOLEAN, insert_ok : BOOLEAN] :
     /\ e.content = "empty" => e.db_save /\ e.db_meta /\ e.vector_db
     /\ ~e.vector_db => e.insert_ok}

CliWrites(r) ==
  /\ doc_documents' = r.st.docs
  /\ next_doc_id' = r.st.next_doc_id
  /\ milvus' = r.st.vecs
  /\ next_pk' = r.st.next_pk
  /\ doc_document_chunks' = r.st.rows
  /\ next_chunk_row' = r.st.next_row
  /\ chunks_output' = r.st.output
  /\ UNCHANGED <<doc_parse_batches, md_files>>

\* a run of the command-line pipeline next to the API
CliRun ==
  /\ next_doc_id <= MaxKeys
  /\ next_pk <= MaxKeys
  /\ next_chunk_row <= MaxKeys
  /\ \E file_path \in {PathTxt}, skip_processed \in BOOLEAN, env \in CliEnvs :
       CliWrites(process_document(CliState, file_path, skip_processed, env))
  /\ UNCHANGED <<taskVars, apiVars, call>>

\* a call of process_document whose arguments and result are kept
CliCall ==
  /\ Cardinality(doc_document_chunks) <= MaxStored
  /\ Cardinality(milvus) <= MaxStored
  /\ \E file_path \in {PathTxt, PathTxtCopy, PathPdf}, skip_processed \in BOOLEAN,
        env \in CliEnvs :
       LET r == process_document(CliState, file_path, skip_processed, env) IN
       /\ CliWrites(r)
       /\ call' = [op |-> "process_document", file_path |-> file_path,
                   skip_processed |-> skip_processed,
                   returned |-> r.returned, steps |-> r.steps]
  /\ UNCHANGED <<taskVars, apiVars>>

\* a call of is_file_processed
IsFileProcessed ==
  /\ \E file_path \in {PathTxt, PathTxtCopy, PathPdf} :
       call' = [op |-> "is_file_processed", file_path |-> file_path,
                returned |-> is_file_processed(chunks_output, file_path)]
  /\ UNCHANGED <<taskVars, storeVars, apiVars, cliVars>>

(***************************************************************************)
(* DELETE /documents, main.py:765-818, and                                 *)
(* VectorStorage.delete_vectors_by_file_path, vector_storage.py:438-533.   *)
(***************************************************************************)
DbOutcomes == {"ok", "down", "commit_fails"}

\* the function without the key
Without(f, k) == [x \in DOMAIN f \ {k} |-> f[x]]

\* a delete that looks the document up by its path alone
delete_vectors_by_file_path_any_code(st, file_path, klg_base_code, db, vector_db, milvus_ok) ==
  LET found == HasDoc(st.docs, file_path)
      document_id == st.docs[file_path].id
      vecs == IF vector_db /\ milvus_ok
              THEN {v \in st.vecs : v.file_id # document_id}
              ELSE st.vecs
      milvus_step == IF ~vector_db THEN "skipped"
                     ELSE IF milvus_ok THEN "deleted" ELSE "failed"
  IN IF db = "down" \/ ~found
     THEN [returned |-> FALSE, docs |-> st.docs, rows |-> st.rows, vecs |-> st.vecs,
           rows_deleted |-> FALSE, milvus |-> "not_reached"]
     ELSE IF db = "commit_fails"
     THEN [returned |-> FALSE, docs |-> st.docs, rows |-> st.rows, vecs |-> vecs,
           rows_deleted |-> FALSE, milvus |-> milvus_step]
     ELSE [returned |-> TRUE, docs |-> Without(st.docs, file_path),
           rows |-> {r \in st.rows : r.file_id # document_id}, vecs |-> vecs,
           rows_deleted |-> TRUE, milvus |-> milvus_step]

\* vector_storage.py:438-533.  st holds the two stores; db is what the
\* MySQL connection does, milvus_ok whether collection.delete returns.  The
\* deletes of the metadata store take effect at the commit; the delete of
\* the vector store, if it is reached, takes effect at once, and an
\* exception from it is printed and not raised.
delete_vectors_by_file_path(st, file_path, klg_base_code, db, vector_db, milvus_ok) ==
  LET found == /\ HasDoc(st.docs, file_path)
               /\ \/ klg_base_code = "none"
                  \/ st.docs[file_path].knlg_base_code = klg_base_code
      document_id == st.docs[file_path].id
      vecs == IF vector_db /\ milvus_ok
              THEN {v \in st.vecs : v.file_id # document_id}
              ELSE st.vecs
      milvus_step == IF ~vector_db THEN "skipped"
                     ELSE IF milvus_ok THEN "deleted" ELSE "failed"
  IN IF db = "down" \/ ~found
     THEN [returned |-> FALSE, docs |-> st.docs, rows |-> st.rows, vecs |-> st.vecs,
           rows_deleted |-> FALSE, milvus |-> "not_reached"]
     ELSE IF db = "commit_fails"
     THEN [returned |-> FALSE, docs |-> st.docs, rows |-> st.rows, vecs |-> vecs,
           rows_deleted |-> FALSE, milvus |-> milvus_step]
     ELSE [returned |-> TRUE, docs |-> Without(st.docs, file_path),
           rows |-> {r \in st.rows : r.file_id # document_id}, vecs |-> vecs,
           rows_deleted |-> TRUE, milvus |-> milvus_step]

\* main.py:738-751, delete_associated_md_file: the markdown file of the name
md_file_present(md, file_path) == file_path.name \in md

\* main.py:783-812, one iteration of the loop: the stores after it, the
\* result appended, and what the adapter did to the two stores.  raises: an
\* exception leaves delete_vectors_by_file_path out of its own handler at
\* 531-533 (the handler prints, and a failing print is raised to the
\* caller); the handler of the loop, 808-811, puts it into the result.
delete_one(st, file_path, klg_base_code, vector_db, db, milvus_ok, raises) ==
  LET d == delete_vectors_by_file_path(st, file_path, klg_base_code, db,
                                       vector_db, milvus_ok)
      is_converted == get_file_extension(file_path) \in {".doc", ".docx", ".pdf"}
      md_deleted == is_converted /\ md_file_present(st.md, file_path)
  IN IF file_path \notin ExistingFiles
     THEN [st |-> st,
           result |-> [file_path |-> file_path, vector_deleted |-> FALSE,
                       md_file_deleted |-> FALSE, error |-> "file_missing"],
           adapter |-> [rows_deleted |-> FALSE, milvus |-> "not_reached"]]
     ELSE IF raises
     THEN [st |-> [docs |-> d.docs, rows |-> d.rows, vecs |-> d.vecs, md |-> st.md],
           result |-> [file_path |-> file_path, vector_deleted |-> FALSE,
                       md_file_deleted |-> FALSE, error |-> "exception"],
           adapter |-> [rows_deleted |-> d.rows_deleted, milvus |-> d.milvus]]
     ELSE [st |-> [docs |-> d.docs, rows |-> d.rows, vecs |-> d.vecs,
                   md |-> IF md_deleted THEN st.md \ {file_path.name} ELSE st.md],
           result |-> [file_path |-> file_path, vector_deleted |-> d.returned,
                       md_file_deleted |-> md_deleted, error |-> "none"],
           adapter |-> [rows_deleted |-> d.rows_deleted, milvus |-> d.milvus]]

\* a loop that gives up at the first file with an error
after_iteration_abort(file_paths, i, result) ==
  IF result.error # "none" THEN Len(file_paths) + 1 ELSE i + 1

\* main.py:782, 793, 808-811: "for file_path in request.file_paths"; the
\* continue and the except clause both go on with the next path
after_iteration(file_paths, i, result) == i + 1

\* a delete request is being served: the loop has paths left
Deleting == call.op = "delete_documents" /\ call.i <= Len(request.file_paths)

\* main.py:773-780: the request arrives; an empty list is refused, else the
\* adapter is constructed and the loop starts
delete_documents(file_paths, klg_base_code) ==
  /\ ~Deleting
  /\ request' = [op |-> "delete_documents", file_paths |-> file_paths,
                 klg_base_code |-> klg_base_code]
  /\ IF file_paths = <<>>
     THEN /\ response' = [code |-> 400, detail |-> "no_file_paths", at |-> 0]
          /\ call' = NoCall
     ELSE \E vector_db \in BOOLEAN :
            /\ response' = NoResponse
            /\ call' = [op |-> "delete_documents", i |-> 1, vector_db |-> vector_db,
                        results |-> <<>>, calls |-> <<>>]
  /\ UNCHANGED <<taskVars, storeVars, next_batch, cliVars>>

\* what the database and the vector store do during one call of the
\* adapter: the vector store is not reached when the database is down, and
\* the handler at 531-533 is entered only when the database fails
DeleteEnvs ==
  {e \in [db : DbOutcomes, milvus_ok : BOOLEAN, raises : BOOLEAN] :
     /\ e.db = "down" => e.milvus_ok
     /\ e.raises => e.db # "ok"}

\* main.py:782-818: the next path of the loop; after the last one the
\* results are returned
DeleteFile ==
  /\ Deleting
  /\ \E env \in DeleteEnvs :
       LET r == delete_one([docs |-> doc_documents, rows |-> doc_document_chunks,
                            vecs |-> milvus, md |-> md_files],
                           request.file_paths[call.i], request.klg_base_code,
                           call.vector_db, env.db, env.milvus_ok, env.raises)
           results == Append(call.results, r.result)
           i == after_iteration(request.file_paths, call.i, r.result)
       IN /\ doc_documents' = r.st.docs
          /\ doc_document_chunks' = r.st.rows
          /\ milvus' = r.st.vecs
          /\ md_files' = r.st.md
          /\ call' = [call EXCEPT !.i = i, !.results = results,
                                  !.calls = Append(@, r.adapter)]
          /\ response' = IF i > Len(request.file_paths)
                         THEN [code |-> 200, results |-> results]
                         ELSE response
  /\ UNCHANGED <<taskVars, next_doc_id, next_chunk_row, doc_parse_batches, next_pk,
                 next_batch, request, cliVars>>

DeleteDocuments ==
  \E file_paths \in SeqsUpTo({PathTxt, PathGone}, MaxBatch),
     klg_base_code \in {"none", "kb1"} :
    delete_documents(file_paths, klg_base_code)

Init ==
  /\ task_statuses = <<>>
  /\ pc = <<>>
  /\ loc = <<>>
  /\ doc_documents = <<>>
  /\ next_doc_id = 1
  /\ doc_document_chunks = {}
  /\ next_chunk_row = 1
  /\ doc_parse_batches = {}
  /\ milvus = {}
  /\ next_pk = 1
  /\ md_files = {}
  /\ next_batch = 1
  /\ request = NoRequest
  /\ response = NoResponse
  /\ call = NoCall
  /\ chunks_output = <<>>

Next == SubmitBatch \/ RunTask

Spec == Init /\ [][Next]_vars

(***************************************************************************)
(* One accepted batch of two files whose tasks run at the same time, their *)
(* steps interleaved in every order.                                       *)
(***************************************************************************)
InitConcurrent ==
  /\ \E file_paths \in [1..2 -> {PathTxt, PathPdf}] :
       /\ task_statuses = NewTasks(1, file_paths)
       /\ request = [op |-> "batch_process", file_paths |-> file_paths,
                     klg_base_code |-> "kb1"]
  /\ pc = <<"queued", "queued">>
  /\ loc = [i \in 1..2 |-> [NoLocals EXCEPT !.klg_base_code = "kb1"]]
  /\ doc_documents = <<>>
  /\ next_doc_id = 1
  /\ doc_document_chunks = {}
  /\ next_chunk_row = 1
  /\ doc_parse_batches = {}
  /\ milvus = {}
  /\ next_pk = 1
  /\ md_files = {}
  /\ next_batch = 2
  /\ response = [code |-> 200, batch_id |-> 1, total_files |-> 2,
                  status |-> "processing"]
  /\ call = NoCall
  /\ chunks_output = <<>>

SpecConcurrent == InitConcurrent /\ [][RunTasksConcurrently]_vars

\* main.py:669: background_tasks.add_task hands every task to the server's
\* worker pool, which runs each one to the end of process_document_complete;
\* a step that is possible for a task is eventually taken
SpecConcurrentFair ==
  /\ InitConcurrent
  /\ [][RunTasksConcurrently]_vars
  /\ \A t \in 1..2 : WF_vars(process_document_complete_unlimited(t))

\* the same batch while a client polls GET /batch-status: the handler runs
\* on the event loop, the tasks on worker threads, so a status request may
\* fall between any two steps of a task
PollWhileRunning == RunTasksConcurrently \/ GetBatchStatus

SpecPolling == InitConcurrent /\ [][PollWhileRunning]_vars

(***************************************************************************)
(* The registry as a status request can find it: every combination of      *)
(* member statuses of up to MaxTasks tasks in consecutive batches.         *)
(***************************************************************************)
StatusValues == {"pending", "processing", "completed", "failed"}

\* a task as a reader sees it while its status is st: before it starts,
\* right after line 232, at line 472, at line 491
SnapshotTask(st, batch_id) ==
  [NewTask(batch_id, PathTxt) EXCEPT
     !.status = st,
     !.klg_base_code = IF st \in {"pending", "failed"} THEN "none" ELSE "kb1",
     !.progress = IF st = "completed"
                  THEN [s \in StageNames |->
                          IF s = "preprocessing" THEN "skipped" ELSE "completed"]
                  ELSE AllPending]

Registries ==
  {r \in UNION {[1..k -> [status : StatusValues, batch_id : 1..MaxTasks]] : k \in 1..MaxTasks} :
     /\ r[1].batch_id = 1
     /\ \A i \in 2..Len(r) : r[i].batch_id \in {r[i-1].batch_id, r[i-1].batch_id + 1}}

InitStatus ==
  /\ \E r \in Registries :
       /\ task_statuses = [i \in 1..Len(r) |-> SnapshotTask(r[i].status, r[i].batch_id)]
       /\ pc = [i \in 1..Len(r) |-> "snapshot"]
       /\ loc = [i \in 1..Len(r) |-> NoLocals]
       /\ next_batch = r[Len(r)].batch_id + 1
  /\ doc_documents = <<>>
  /\ next_doc_id = 1
  /\ doc_document_chunks = {}
  /\ next_chunk_row = 1
  /\ doc_parse_batches = {}
  /\ milvus = {}
  /\ next_pk = 1
  /\ md_files = {}
  /\ request = NoRequest
  /\ response = NoResponse
  /\ call = NoCall
  /\ chunks_output = <<>>

SpecStatus == InitStatus /\ [][GetBatchStatus]_vars

(***************************************************************************)
(* Direct calls of store_vectors on every chunk list of up to MaxChunks    *)
(* chunks whose vectors are missing, short, of the dimension, or long.     *)
(***************************************************************************)
VectorKinds == {Absent, 3, Dim, Dim + 1}

InitStore ==
  /\ \E vs \in SeqsUpTo(VectorKinds, MaxChunks) :
       call = [op |-> "store_vectors",
               chunks |-> [i \in 1..Len(vs) |->
                             [ChunkerChunk("a", i - 1) EXCEPT !.vector = vs[i]]],
               returned |-> <<>>, inserted |-> {}, outcome |-> "pending"]
  /\ task_statuses = <<>>
  /\ pc = <<>>
  /\ loc = <<>>
  /\ doc_documents = <<>>
  /\ next_doc_id = 1
  /\ doc_document_chunks = {}
  /\ next_chunk_row = 1
  /\ doc_parse_batches = {}
  /\ milvus = {}
  /\ next_pk = 1
  /\ md_files = {}
  /\ next_batch = 1
  /\ request = NoRequest
  /\ response = NoResponse
  /\ chunks_output = <<>>

SpecStore == InitStore /\ [][StoreVectorsCall]_vars

(***************************************************************************)
(* The normalisation of single vectors on their way into the store:        *)
(* vectors of few entries, of about the dimension, of 500 and of 1000      *)
(* entries, filled with small numbers in MaxPatterns ways.                 *)
(***************************************************************************)
VectorLengths ==
  (0..MaxOff) \cup ((Dim - MaxOff)..(Dim + MaxOff)) \cup {500, 1000}

InputVector(n, p) == [i \in 1..n |-> (i % (p + 1)) - 1]

\* vector_storage.py:270-288: one pass of the loop for a valid vector
NormalizeVector ==
  /\ call.op = "normalize_vector"
  /\ ~call.done
  /\ call' = [call EXCEPT !.stored = normalize_vector(call.vector), !.done = TRUE]
  /\ UNCHANGED <<taskVars, storeVars, apiVars, cliVars>>

InitVector ==
  /\ \E n \in VectorLengths, p \in 1..MaxPatterns :
       call = [op |-> "normalize_vector", vector |-> InputVector(n, p),
               stored |-> <<>>, done |-> FALSE]
  /\ task_statuses = <<>>
  /\ pc = <<>>
  /\ loc = <<>>
  /\ doc_documents = <<>>
  /\ next_doc_id = 1
  /\ doc_document_chunks = {}
  /\ next_chunk_row = 1
  /\ doc_parse_batches = {}
  /\ milvus = {}
  /\ next_pk = 1
  /\ md_files = {}
  /\ next_batch = 1
  /\ request = NoRequest
  /\ response = NoResponse
  /\ chunks_output = <<>>

SpecVector == InitVector /\ [][NormalizeVector]_vars

(***************************************************************************)
(* DocumentChunker._split_long_text, document_chunking.py:159-198, one     *)
(* step per pass of the outer loop.  A text is a sequence of characters,   *)
(* " " one of the boundary characters of line 184 and "a" none.  Indexes   *)
(* and slices are Python's: counted from 0, negative ones from the end.    *)
(***************************************************************************)
\* text[lo:hi]
PySlice(text, lo, hi) ==
  LET n == Len(text)
      Clamp(i) == LET j == IF i < 0 THEN i + n ELSE i
                  IN IF j < 0 THEN 0 ELSE IF j > n THEN n ELSE j
  IN SubSeq(text, Clamp(lo) + 1, Clamp(hi))

\* whether text[i] raises IndexError
PyIndexError(text, i) == i >= Len(text) \/ i < -Len(text)

\* text[i]
PyIndex(text, i) == text[(IF i < 0 THEN i + Len(text) ELSE i) + 1]

\* document_chunking.py:184, the boundary characters among the characters of
\* the model's texts
Separators == {" ", "\n", "."}

\* document_chunking.py:183-186: move end back to a boundary character, at
\* most down to start + min_chunk_size
RECURSIVE find_boundary(_, _, _)
find_boundary(text, limit, end) ==
  IF end > limit
  THEN IF PyIndexError(text, end) THEN [raised |-> TRUE, end |-> end]
       ELSE IF PyIndex(text, end) \in Separators THEN [raised |-> FALSE, end |-> end]
       ELSE find_boundary(text, limit, end - 1)
  ELSE [raised |-> FALSE, end |-> end]

\* one pass that appends text[start:end] instead of text[start:end+1]
split_pass_exclusive(c) ==
  LET text_len == Len(c.text)
      end0 == c.start + c.chunk_size
      b == find_boundary(c.text, c.start + c.min_chunk_size, end0)
      end == IF b.end <= c.start + c.min_chunk_size THEN c.start + c.chunk_size
             ELSE b.end
  IN IF ~(c.start < text_len) THEN [c EXCEPT !.outcome = "returned"]
     ELSE IF end0 >= text_len
     THEN [c EXCEPT !.chunks = Append(@, PySlice(c.text, c.start, text_len)),
                    !.outcome = "returned"]
     ELSE IF b.raised THEN [c EXCEPT !.outcome = "IndexError"]
     ELSE [c EXCEPT !.chunks = Append(@, PySlice(c.text, c.start, end)),
                    !.start = end + 1 - c.chunk_overlap]

\* document_chunking.py:173-196, one pass of "while start < text_len"
split_pass(c) ==
  LET text_len == Len(c.text)
      end0 == c.start + c.chunk_size
      b == find_boundary(c.text, c.start + c.min_chunk_size, end0)
      end == IF b.end <= c.start + c.min_chunk_size THEN c.start + c.chunk_size
             ELSE b.end
  IN IF ~(c.start < text_len) THEN [c EXCEPT !.outcome = "returned"]
     ELSE IF end0 >= text_len
     THEN [c EXCEPT !.chunks = Append(@, PySlice(c.text, c.start, text_len)),
                    !.outcome = "returned"]
     ELSE IF b.raised THEN [c EXCEPT !.outcome = "IndexError"]
     ELSE [c EXCEPT !.chunks = Append(@, PySlice(c.text, c.start, end + 1)),
                    !.start = end + 1 - c.chunk_overlap]

SplitPass ==
  /\ call.op = "_split_long_text"
  /\ call.outcome = "running"
  /\ Len(call.chunks) < MaxPieces
  /\ call' = split_pass(call)
  /\ UNCHANGED <<taskVars, storeVars, apiVars, cliVars>>

\* document_chunking.py:14-28 and 169-171: any configuration, any text
InitSplit ==
  /\ \E text \in SeqsUpTo({"a", " "}, MaxText),
        chunk_size \in 1..MaxSize, chunk_overlap \in 0..(MaxSize + 1),
        min_chunk_size \in 0..MaxSize :
       call = [op |-> "_split_long_text", text |-> text, chunk_size |-> chunk_size,
               chunk_overlap |-> chunk_overlap, min_chunk_size |-> min_chunk_size,
               start |-> 0, chunks |-> <<>>, outcome |-> "running"]
  /\ task_statuses = <<>>
  /\ pc = <<>>
  /\ loc = <<>>
  /\ doc_documents = <<>>
  /\ next_doc_id = 1
  /\ doc_document_chunks = {}
  /\ next_chunk_row = 1
  /\ doc_parse_batches = {}
  /\ milvus = {}
  /\ next_pk = 1
  /\ md_files = {}
  /\ next_batch = 1
  /\ request = NoRequest
  /\ response = NoResponse
  /\ chunks_output = <<>>

SpecSplit == InitSplit /\ [][SplitPass]_vars

(***************************************************************************)
(* DocumentChunker.chunk_document, document_chunking.py:30-473.  A text is *)
(* a sequence of characters of Alphabet; positions are Python's, counted   *)
(* from 0.  The regular expressions are modelled by what re does with them *)
(* on these characters: leftmost match, greedy with backtracking.          *)
(***************************************************************************)
NL == "\n"
NUL == "\\x00"
Alphabet == {"a", " ", NL, "#", ".", NUL}
Whitespace == {" ", NL}
Terminators == {"."}
ControlChars == {NUL}

At(text, p) == text[p + 1]

\* how many characters of S follow each other from position p on
RECURSIVE RunLen(_, _, _)
RunLen(text, p, S) ==
  IF p < Len(text) /\ At(text, p) \in S THEN 1 + RunLen(text, p + 1, S) ELSE 0

\* how many characters of S end the text
RECURSIVE RunLenBack(_, _)
RunLenBack(text, S) ==
  IF text # <<>> /\ text[Len(text)] \in S
  THEN 1 + RunLenBack(SubSeq(text, 1, Len(text) - 1), S) ELSE 0

\* str.strip()
strip(text) ==
  LET a == RunLen(text, 0, Whitespace)
  IN IF a = Len(text) THEN <<>>
     ELSE PySlice(text, a, Len(text) - RunLenBack(text, Whitespace))

\* re.sub(r'\s+', ' ', content)
RECURSIVE sub_whitespace(_)
sub_whitespace(content) ==
  IF content = <<>> THEN <<>>
  ELSE IF Head(content) \in Whitespace
  THEN <<" ">> \o sub_whitespace(PySlice(content, RunLen(content, 0, Whitespace),
                                         Len(content)))
  ELSE <<Head(content)>> \o sub_whitespace(Tail(content))

\* re.sub(r'\n{3,}', '\n\n', content)
RECURSIVE sub_newlines(_)
sub_newlines(content) ==
  LET n == RunLen(content, 0, {NL})
  IN IF content = <<>> THEN <<>>
     ELSE IF n >= 3 THEN <<NL, NL>> \o sub_newlines(PySlice(content, n, Len(content)))
     ELSE IF n >= 1
     THEN PySlice(content, 0, n) \o sub_newlines(PySlice(content, n, Len(content)))
     ELSE <<Head(content)>> \o sub_newlines(Tail(content))

\* re.sub(r'[\x00-\x08\x0B\x0C\x0E-\x1F\x7F]', '', content)
sub_control(content) == SelectSeq(content, LAMBDA ch : ch \notin ControlChars)

\* the cleaning without the final strip()
clean_document_unstripped(content) ==
  sub_control(sub_newlines(sub_whitespace(content)))

\* document_chunking.py:61-82
clean_document(content) ==
  strip(sub_control(sub_newlines(sub_whitespace(content))))

NoMatch == [found |-> FALSE, start |-> 0, end |-> 0]

LineStart(text, p) == p = 0 \/ At(text, p - 1) = NL

\* ^#{1,6}\s+.+$ with re.MULTILINE, tried at position p: one to six '#' at
\* the start of a line, white space (which may run over line ends), and the
\* rest of a line that has at least one character
match_header(text, p) ==
  LET h == RunLen(text, p, {"#"})
      w == RunLen(text, p + h, Whitespace)
      ks == {k \in 1..w : p + h + k < Len(text) /\ At(text, p + h + k) # NL}
      k == CHOOSE x \in ks : \A y \in ks : y <= x
      rest == p + h + k
  IN IF LineStart(text, p) /\ h >= 1 /\ h <= 6 /\ ks # {}
     THEN [found |-> TRUE, start |-> p,
           end |-> rest + RunLen(text, rest, Alphabet \ {NL})]
     ELSE NoMatch

\* \n\s*\n tried at position p: a line end, white space, a line end
match_blank_line(text, p) ==
  LET w == RunLen(text, p + 1, Whitespace)
      qs == {q \in (p + 1)..(p + w) : At(text, q) = NL}
      q == CHOOSE x \in qs : \A y \in qs : y <= x
  IN IF p < Len(text) /\ At(text, p) = NL /\ qs # {}
     THEN [found |-> TRUE, start |-> p, end |-> q + 1]
     ELSE NoMatch

\* [.!?...]+[\s\n]+ tried at position p: sentence terminators and the white
\* space after them
match_sentence_end(text, p) ==
  LET t == RunLen(text, p, Terminators)
      w == RunLen(text, p + t, Whitespace)
  IN IF t >= 1 /\ w >= 1
     THEN [found |-> TRUE, start |-> p, end |-> p + t + w]
     ELSE NoMatch

match_at(pattern, text, p) ==
  CASE pattern = "header" -> match_header(text, p)
    [] pattern = "blank_line" -> match_blank_line(text, p)
    [] pattern = "sentence_end" -> match_sentence_end(text, p)

\* the match tried at p if there is one, else the leftmost match after p
RECURSIVE re_search(_, _, _)
first_match(pattern, text, p, m) ==
  IF m.found THEN m ELSE re_search(pattern, text, p + 1)

\* the leftmost match at or after position p
re_search(pattern, text, p) ==
  IF p >= Len(text) THEN NoMatch
  ELSE first_match(pattern, text, p, match_at(pattern, text, p))

\* the matches from the match m on
RECURSIVE re_findall(_, _, _)
findall_from(pattern, text, m) ==
  IF m.found
  THEN <<PySlice(text, m.start, m.end)>> \o re_findall(pattern, text, m.end)
  ELSE <<>>

\* re.findall(pattern, text): the matches from position p on
re_findall(pattern, text, p) == findall_from(pattern, text, re_search(pattern, text, p))

\* the pieces from position p on when m is the next match
RECURSIVE re_split(_, _, _, _)
split_at(pattern, captured, text, p, m) ==
  IF m.found
  THEN <<PySlice(text, p, m.start)>>
         \o (IF captured THEN <<PySlice(text, m.start, m.end)>> ELSE <<>>)
         \o re_split(pattern, captured, text, m.end)
  ELSE <<PySlice(text, p, Len(text))>>

\* re.split(pattern, text) from position p on; with a capturing group
\* around the pattern the separators are part of the list
re_split(pattern, captured, text, p) ==
  split_at(pattern, captured, text, p, re_search(pattern, text, p))

\* document_chunking.py:84-112
create_chunk(text, file_path, file_id, chunk_id, chunk_type) ==
  [content |-> text,
   metadata |-> [source |-> basename(file_path), file_path |-> file_path,
                 file_id |-> file_id, chunk_id |-> chunk_id,
                 chunk_type |-> chunk_type]]

\* the passes of _split_long_text one after the other.  A pass is decided
\* by start; a call that has not ended after more passes than start has
\* values (it stays above -len - chunk_size, or moves by the same amount in
\* every pass) never ends.
RECURSIVE split_passes(_, _)
split_passes(c, passes) ==
  IF c.outcome # "running" THEN c
  ELSE IF passes = 0 THEN [c EXCEPT !.outcome = "never"]
  ELSE split_passes(split_pass(c), passes - 1)

\* what the call that ended as c returns
split_returned(c) ==
  [outcome |-> c.outcome,
   chunks |-> IF c.outcome = "returned" THEN c.chunks ELSE <<>>]

\* document_chunking.py:159-198, the whole call: what it returns, or that it
\* raises IndexError, or that it never returns
split_long_text(self, text) ==
  split_returned(
    split_passes([op |-> "_split_long_text", text |-> text,
                  chunk_size |-> self.chunk_size,
                  chunk_overlap |-> self.chunk_overlap,
                  min_chunk_size |-> self.min_chunk_size,
                  start |-> 0, chunks |-> <<>>, outcome |-> "running"],
                 2 * Len(text) + self.chunk_size + 2))

\* document_chunking.py:136-146 and 461-470: a chunk for each piece of the
\* split, numbered from chunk_id on
split_chunks(split, file_path, file_id, chunk_id, chunk_type) ==
  [outcome |-> split.outcome,
   chunks |-> [i \in 1..Len(split.chunks) |->
                 create_chunk(split.chunks[i], file_path, file_id,
                              chunk_id + (i - 1), chunk_type)]]

\* document_chunking.py:114-157
process_text_unit(self, text_unit, file_path, file_id, chunk_id, chunk_type) ==
  IF Len(text_unit) > self.chunk_size
  THEN split_chunks(split_long_text(self, text_unit), file_path, file_id,
                    chunk_id, chunk_type \o "_split")
  ELSE [outcome |-> "returned",
        chunks |-> <<create_chunk(text_unit, file_path, file_id, chunk_id,
                                  chunk_type)>>]

\* document_chunking.py:235-250
has_markdown_structure(content) == Len(re_findall("header", content, 0)) >= 2

\* document_chunking.py:252-264
has_paragraphs(content) == Len(re_split("blank_line", FALSE, content, 0)) >= 2

START_HEADER == <<"kai", "shi">>

\* document_chunking.py:297 and 311
section_text(current_header, current_content) ==
  current_header \o <<NL, NL>> \o current_content

\* document_chunking.py:294-302: the section is the content under the
\* current header and the chunks r made of it are appended
structure_emit(v, current_content, r) ==
  [v EXCEPT !.current_content = current_content,
            !.outcome = r.outcome,
            !.chunks = @ \o r.chunks,
            !.chunk_id = @ + Len(r.chunks)]

\* document_chunking.py:292-307, one pass of the loop for sections[i - 1],
\* stripped: a content at even positions, a header at odd ones
structure_pass(self, section, file_path, file_id, i, v) ==
  IF (i - 1) % 2 = 0
  THEN IF section # <<>> /\ v.current_header # <<>>
       THEN structure_emit(v, section,
              process_text_unit(self, section_text(v.current_header, section),
                                file_path, file_id, v.chunk_id, "section"))
       ELSE [v EXCEPT !.current_content = section]
  ELSE [v EXCEPT !.current_header = section]

\* document_chunking.py:291-307, the loop over sections[i - 1], i = 1, 2, ...
\* v holds chunks, chunk_id, current_header, current_content and whether the
\* loop is still running
RECURSIVE structure_loop(_, _, _, _, _, _)
structure_loop(self, sections, file_path, file_id, i, v) ==
  IF i > Len(sections) \/ v.outcome # "returned" THEN v
  ELSE structure_loop(self, sections, file_path, file_id, i + 1,
                      structure_pass(self, strip(sections[i]), file_path,
                                     file_id, i, v))

\* document_chunking.py:309-319: the last section once more, r the chunks
\* made of it
structure_last(v, r) ==
  IF v.outcome # "returned" THEN [outcome |-> v.outcome, chunks |-> <<>>]
  ELSE IF v.current_content # <<>> /\ v.current_header # <<>>
  THEN [outcome |-> r.outcome,
        chunks |-> IF r.outcome = "returned" THEN v.chunks \o r.chunks ELSE <<>>]
  ELSE [outcome |-> "returned", chunks |-> v.chunks]

\* document_chunking.py:309-321 on the state v in which the loop ended
structure_end(self, v, file_path, file_id) ==
  structure_last(v, process_text_unit(self,
                                      section_text(v.current_header,
                                                   v.current_content),
                                      file_path, file_id, v.chunk_id, "section"))

\* document_chunking.py:266-321
chunk_by_structure(self, content, file_path, file_id) ==
  structure_end(self,
                structure_loop(self, re_split("header", TRUE, content, 0),
                               file_path, file_id, 1,
                               [chunks |-> <<>>, chunk_id |-> 0,
                                current_header |-> START_HEADER,
                                current_content |-> <<>>, outcome |-> "returned"]),
                file_path, file_id)

\* document_chunking.py:351-359: the chunks r of a paragraph are appended
paragraph_emit(v, r) ==
  [v EXCEPT !.outcome = r.outcome,
            !.chunks = @ \o r.chunks,
            !.chunk_id = @ + Len(r.chunks)]

\* document_chunking.py:346-359, one pass of the loop for a paragraph,
\* stripped
paragraph_pass(self, paragraph, file_path, file_id, v) ==
  IF paragraph = <<>> THEN v
  ELSE paragraph_emit(v, process_text_unit(self, paragraph, file_path, file_id,
                                           v.chunk_id, "paragraph"))

\* document_chunking.py:345-359, the loop over paragraphs[i]
RECURSIVE paragraph_loop(_, _, _, _, _, _)
paragraph_loop(self, paragraphs, file_path, file_id, i, v) ==
  IF i > Len(paragraphs) \/ v.outcome # "returned" THEN v
  ELSE paragraph_loop(self, paragraphs, file_path, file_id, i + 1,
                      paragraph_pass(self, strip(paragraphs[i]), file_path,
                                     file_id, v))

\* what the call returns when the loop ended in the state v
paragraph_end(v) ==
  [outcome |-> v.outcome,
   chunks |-> IF v.outcome = "returned" THEN v.chunks ELSE <<>>]

\* document_chunking.py:323-361
chunk_by_paragraph(self, content, file_path, file_id) ==
  paragraph_end(paragraph_loop(self, re_split("blank_line", FALSE, content, 0),
                               file_path, file_id, 1,
                               [chunks |-> <<>>, chunk_id |-> 0,
                                outcome |-> "returned"]))

\* document_chunking.py:387-391: each sentence with the separator after it
sentences_of(parts) ==
  [j \in 1..((Len(parts) + 1) \div 2) |->
     parts[2 * j - 1] \o (IF 2 * j <= Len(parts) THEN parts[2 * j] ELSE <<>>)]

\* document_chunking.py:409-414: the chunks r of the current chunk are
\* appended and the sentence starts the next chunk
semantic_emit(v, r, sentence) ==
  [v EXCEPT !.outcome = r.outcome,
            !.chunks = @ \o r.chunks,
            !.chunk_id = @ + Len(r.chunks),
            !.current_chunk = sentence]

\* document_chunking.py:398-417, one pass of the loop for a sentence that
\* is not empty
semantic_pass(self, sentence, file_path, file_id, v) ==
  IF Len(v.current_chunk) + Len(sentence) <= self.chunk_size
  THEN [v EXCEPT !.current_chunk =
                   IF @ # <<>> THEN @ \o <<" ">> \o sentence ELSE sentence]
  ELSE IF v.current_chunk # <<>>
  THEN semantic_emit(v, process_text_unit(self, v.current_chunk, file_path,
                                          file_id, v.chunk_id, "semantic"),
                     sentence)
  ELSE [v EXCEPT !.current_chunk = sentence]

\* document_chunking.py:394-417, the loop over sentences[i]
RECURSIVE semantic_loop(_, _, _, _, _, _)
semantic_loop(self, sentences, file_path, file_id, i, v) ==
  IF i > Len(sentences) \/ v.outcome # "returned" THEN v
  ELSE IF strip(sentences[i]) = <<>>
  THEN semantic_loop(self, sentences, file_path, file_id, i + 1, v)
  ELSE semantic_loop(self, sentences, file_path, file_id, i + 1,
                     semantic_pass(self, strip(sentences[i]), file_path, file_id, v))

\* document_chunking.py:430-439, the except clause: the whole content as
\* one more chunk, after the chunks collected before the exception
semantic_fallback(chunks, content, file_path, file_id) ==
  Append(chunks, create_chunk(content, file_path, file_id, 0, "full_text"))

\* document_chunking.py:419-425: the chunk in progress when the loop ends
semantic_last(v, r) ==
  IF v.outcome = "returned" /\ v.current_chunk # <<>>
  THEN [outcome |-> r.outcome, chunks |-> v.chunks \o r.chunks]
  ELSE [outcome |-> v.outcome, chunks |-> v.chunks]

\* document_chunking.py:427-441: what the call returns when the body ended
\* as w says
semantic_result(w, content, file_path, file_id) ==
  CASE w.outcome = "returned" -> w
    [] w.outcome = "IndexError" ->
         [outcome |-> "returned",
          chunks |-> semantic_fallback(w.chunks, content, file_path, file_id)]
    [] OTHER -> [outcome |-> w.outcome, chunks |-> <<>>]

\* document_chunking.py:419-425 on the state v in which the loop ended
semantic_end(self, v, file_path, file_id) ==
  semantic_last(v, process_text_unit(self, v.current_chunk, file_path, file_id,
                                     v.chunk_id, "semantic"))

\* document_chunking.py:363-441
chunk_by_semantic(self, content, file_path, file_id) ==
  semantic_result(
    semantic_end(self,
                 semantic_loop(self,
                               sentences_of(re_split("sentence_end", TRUE, content, 0)),
                               file_path, file_id, 1,
                               [chunks |-> <<>>, chunk_id |-> 0,
                                current_chunk |-> <<>>, outcome |-> "returned"]),
                 file_path, file_id),
    content, file_path, file_id)

\* document_chunking.py:443-473
chunk_by_fixed_length(self, content, file_path, file_id) ==
  split_chunks(split_long_text(self, content), file_path, file_id, 0,
               "fixed_length")

\* document_chunking.py:225-233: the semantic chunks, or fixed lengths when
\* the semantic strategy raised
semantic_or_fixed_length(self, semantic, content, file_path, file_id) ==
  IF semantic.outcome = "IndexError"
  THEN chunk_by_fixed_length(self, content, file_path, file_id)
  ELSE semantic

\* document_chunking.py:200-233
chunk_text_document(self, content, file_path, file_id, prefer_structure) ==
  IF has_markdown_structure(content) /\ prefer_structure
  THEN chunk_by_structure(self, content, file_path, file_id)
  ELSE IF has_paragraphs(content)
  THEN chunk_by_paragraph(self, content, file_path, file_id)
  ELSE semantic_or_fixed_length(self,
                                chunk_by_semantic(self, content, file_path, file_id),
                                content, file_path, file_id)

\* document_chunking.py:30-59
DocumentChunker_chunk_document(self, content, file_path, file_id) ==
  LET cleaned == clean_document(content)
      file_ext == file_path.ext
  IN IF file_ext \in {".md", ".markdown"}
     THEN chunk_text_document(self, cleaned, file_path, file_id, TRUE)
     ELSE IF file_ext \in {".txt", ".text"}
     THEN chunk_text_document(self, cleaned, file_path, file_id, FALSE)
     ELSE chunk_by_fixed_length(self, cleaned, file_path, file_id)

(***************************************************************************)
(* Calls of chunk_document on documents put together from up to MaxBlocks  *)
(* pieces (a heading line with its body line, a sentence, a long word, a   *)
(* line end, a space, a control character), for a markdown, a plain-text   *)
(* and another path, and for chunkers with chunk_size up to MaxUnit or so  *)
(* large that no document exceeds it, chunk_overlap up to MaxUnit + 2 and  *)
(* min_chunk_size 0 or MaxUnit.                                            *)
(***************************************************************************)
Blocks ==
  { <<"#", " ", "a", NL, "a", NL>>, <<"a", ".", " ">>, <<"a", "a", "a">>,
    <<NL>>, <<" ">>, <<NUL>> }

RECURSIVE Concat(_)
Concat(blocks) == IF blocks = <<>> THEN <<>> ELSE Head(blocks) \o Concat(Tail(blocks))

Documents == {Concat(blocks) : blocks \in SeqsUpTo(Blocks, MaxBlocks)}

LongestBlock == CHOOSE n \in {Len(b) : b \in Blocks} : \A b \in Blocks : Len(b) <= n

Chunkers ==
  [chunk_size : (1..MaxUnit) \cup {MaxBlocks * LongestBlock},
   chunk_overlap : 0..(MaxUnit + 2),
   min_chunk_size : {0, MaxUnit}]

ChunkedPaths == {PathGone, PathTxt, PathPdf}

ChunkDocument ==
  /\ call.op = "chunk_document"
  /\ call.outcome = "called"
  /\ LET r == DocumentChunker_chunk_document(call.self, call.content,
                                             call.file_path, call.file_id)
     IN call' = [call EXCEPT !.outcome = r.outcome, !.returned = r.chunks]
  /\ UNCHANGED <<taskVars, storeVars, apiVars, cliVars>>

InitChunk ==
  /\ \E self \in Chunkers, content \in Documents, file_path \in ChunkedPaths :
       call = [op |-> "chunk_document", self |-> self, content |-> content,
               file_path |-> file_path, file_id |-> 1, outcome |-> "called",
               returned |-> <<>>]
  /\ task_statuses = <<>>
  /\ pc = <<>>
  /\ loc = <<>>
  /\ doc_documents = <<>>
  /\ next_doc_id = 1
  /\ doc_document_chunks = {}
  /\ next_chunk_row = 1
  /\ doc_parse_batches = {}
  /\ milvus = {}
  /\ next_pk = 1
  /\ md_files = {}
  /\ next_batch = 1
  /\ request = NoRequest
  /\ response = NoResponse
  /\ chunks_output = <<>>

SpecChunk == InitChunk /\ [][ChunkDocument]_vars

(***************************************************************************)
(* The steps of the chunker called on their own: _clean_document,          *)
(* _chunk_by_structure and _chunk_by_semantic on documents put together    *)
(* from up to MaxBlocks pieces (two heading lines that differ, each with   *)
(* its body line, two sentences, a long word, three line ends), for        *)
(* chunkers with chunk_size up to MaxUnit + 2 or so large that no document *)
(* exceeds it.                                                             *)
(***************************************************************************)
StrategyBlocks ==
  { <<"#", " ", "a", NL, "a", NL>>, <<"#", "#", " ", "a", NL, "a", ".", NL>>,
    <<"a", ".", " ">>, <<".", " ">>, <<"a", "a", "a">>, <<NL, NL, NL>> }

StrategyDocuments == {Concat(blocks) : blocks \in SeqsUpTo(StrategyBlocks, MaxBlocks)}

LongestStrategyBlock ==
  CHOOSE n \in {Len(b) : b \in StrategyBlocks} : \A b \in StrategyBlocks : Len(b) <= n

StrategyChunkers ==
  [chunk_size : (1..(MaxUnit + 2)) \cup {MaxBlocks * LongestStrategyBlock + 2},
   chunk_overlap : {0},
   min_chunk_size : {0}]

StrategyOps == {"_clean_document", "_chunk_by_structure", "_chunk_by_semantic"}

CleanDocument ==
  /\ call.op = "_clean_document"
  /\ call.outcome = "called"
  /\ call' = [call EXCEPT !.outcome = "returned",
                          !.returned = clean_document(call.content)]
  /\ UNCHANGED <<taskVars, storeVars, apiVars, cliVars>>

ChunkByStructure ==
  /\ call.op = "_chunk_by_structure"
  /\ call.outcome = "called"
  /\ LET r == chunk_by_structure(call.self, call.content, call.file_path,
                                 call.file_id)
     IN call' = [call EXCEPT !.outcome = r.outcome, !.returned = r.chunks]
  /\ UNCHANGED <<taskVars, storeVars, apiVars, cliVars>>

ChunkBySemantic ==
  /\ call.op = "_chunk_by_semantic"
  /\ call.outcome = "called"
  /\ LET r == chunk_by_semantic(call.self, call.content, call.file_path,
                                call.file_id)
     IN call' = [call EXCEPT !.outcome = r.outcome, !.returned = r.chunks]
  /\ UNCHANGED <<taskVars, storeVars, apiVars, cliVars>>

InitStrategies ==
  /\ \E op \in StrategyOps, self \in StrategyChunkers, content \in StrategyDocuments :
       call = [op |-> op, self |-> self, content |-> content,
               file_path |-> PathGone, file_id |-> 1, outcome |-> "called",
               returned |-> <<>>]
  /\ task_statuses = <<>>
  /\ pc = <<>>
  /\ loc = <<>>
  /\ doc_documents = <<>>
  /\ next_doc_id = 1
  /\ doc_document_chunks = {}
  /\ next_chunk_row = 1
  /\ doc_parse_batches = {}
  /\ milvus = {}
  /\ next_pk = 1
  /\ md_files = {}
  /\ next_batch = 1
  /\ request = NoRequest
  /\ response = NoResponse
  /\ chunks_output = <<>>

NextStrategies == CleanDocument \/ ChunkByStructure \/ ChunkBySemantic

SpecStrategies == InitStrategies /\ [][NextStrategies]_vars

(***************************************************************************)
(* FastAPIClient.wait_for_completion, api_client.py:88-117, step by step:  *)
(* the test of the loop, one poll with what follows it, the sleep.  Time   *)
(* is counted in seconds; a poll takes up to MaxPollTime of them.  A       *)
(* status is a Python dict: the keys it has, and the value under "status". *)
(***************************************************************************)
StatusKeys == {"error", "status", "message"}
StatusTexts == {"pending", "processing", "completed", "failed", "error"}
NoValue == "none"

\* what the server can send as JSON
JsonAnswers ==
  {[keys |-> k, status |-> s] :
     k \in SUBSET StatusKeys, s \in StatusTexts \cup {NoValue}}

\* api_client.py:60-67, get_status: the server's JSON, or a dict with the
\* key "error" when the request raised
get_status(request_ok, json) ==
  IF request_ok
  THEN [keys |-> json.keys,
        status |-> IF "status" \in json.keys THEN json.status ELSE NoValue]
  ELSE [keys |-> {"error"}, status |-> NoValue]

\* api_client.py:114-117
TimeoutError == [keys |-> {"error", "task_id"}, status |-> NoValue]

Waiting == call.op = "wait_for_completion" /\ call.outcome = "running"

\* api_client.py:101, the loop's test, and 114-117 when it fails
WaitTest ==
  /\ Waiting /\ call.at = "test"
  /\ call' = IF call.now - call.start_time < call.timeout
             THEN [call EXCEPT !.at = "poll"]
             ELSE [call EXCEPT !.outcome = "returned", !.returned = TimeoutError]
  /\ UNCHANGED <<taskVars, storeVars, apiVars, cliVars>>

\* api_client.py:102-109: the poll and what the loop body does with it
after_poll(c, status) ==
  IF "error" \in status.keys
  THEN [c EXCEPT !.outcome = "returned", !.returned = status]
  ELSE IF "status" \notin status.keys
  THEN [c EXCEPT !.outcome = "KeyError"]
  ELSE IF status.status \in {"completed", "failed", "error"}
  THEN [c EXCEPT !.outcome = "returned", !.returned = status]
  ELSE IF "message" \notin status.keys
  THEN [c EXCEPT !.outcome = "KeyError"]
  ELSE [c EXCEPT !.at = "sleep"]

WaitPoll ==
  /\ Waiting /\ call.at = "poll"
  /\ \E request_ok \in BOOLEAN, json \in JsonAnswers, took \in 0..MaxPollTime :
       /\ request_ok \/ json = [keys |-> {}, status |-> NoValue]
       /\ "status" \in json.keys <=> json.status # NoValue
       /\ LET status == get_status(request_ok, json)
          IN call' = after_poll([call EXCEPT !.polls = @ + 1,
                                            !.poll_started = call.now,
                                            !.now = @ + took,
                                            !.request_ok = request_ok,
                                            !.status = status],
                                status)
  /\ UNCHANGED <<taskVars, storeVars, apiVars, cliVars>>

\* api_client.py:110, time.sleep(check_interval)
WaitSleep ==
  /\ Waiting /\ call.at = "sleep"
  /\ call' = [call EXCEPT !.now = @ + call.check_interval, !.at = "test"]
  /\ UNCHANGED <<taskVars, storeVars, apiVars, cliVars>>

\* api_client.py:88, 99: the arguments and start_time = time.time()
InitWait ==
  /\ \E check_interval \in 1..MaxInterval, timeout \in 0..MaxTimeout :
       call = [op |-> "wait_for_completion", check_interval |-> check_interval,
               timeout |-> timeout, start_time |-> 0, now |-> 0, at |-> "test",
               polls |-> 0, poll_started |-> 0, request_ok |-> TRUE,
               status |-> [keys |-> {}, status |-> NoValue],
               outcome |-> "running", returned |-> [keys |-> {}, status |-> NoValue]]
  /\ task_statuses = <<>>
  /\ pc = <<>>
  /\ loc = <<>>
  /\ doc_documents = <<>>
  /\ next_doc_id = 1
  /\ doc_document_chunks = {}
  /\ next_chunk_row = 1
  /\ doc_parse_batches = {}
  /\ milvus = {}
  /\ next_pk = 1
  /\ md_files = {}
  /\ next_batch = 1
  /\ request = NoRequest
  /\ response = NoResponse
  /\ chunks_output = <<>>

NextWait == WaitTest \/ WaitPoll \/ WaitSleep

SpecWait == InitWait /\ [][NextWait]_vars

(***************************************************************************)
(* The command-line pipeline fills the stores, delete requests empty them. *)
(***************************************************************************)
NextDelete == CliRun \/ DeleteDocuments \/ DeleteFile

SpecDelete == Init /\ [][NextDelete]_vars

(***************************************************************************)
(* Direct calls of delete_vectors_by_file_path, vector_storage.py:438-533, *)
(* on stores that hold one ingested document: its row with a knowledge-    *)
(* base code or without one, up to MaxChunks chunk rows under the document *)
(* id or under the file id of the command-line pipeline, and up to         *)
(* MaxChunks vectors.                                                      *)
(***************************************************************************)
StoredDocument(kb) ==
  PathTxt :> [id |-> 1, status |-> 0, file_hash |-> Hash(PathTxt),
              knlg_base_code |-> kb]

StoredRows(n, file_id) ==
  {[id |-> i, document_id |-> 1, file_id |-> file_id, chunk_index |-> i - 1,
    content |-> <<PathTxt, i - 1>>, vector_id |-> i] : i \in 1..n}

StoredVectors(n) ==
  {[id |-> i, dim |-> Dim, chunk_id |-> i - 1, chunk_index |-> i - 1,
    content |-> <<PathTxt, i - 1>>, file_id |-> Absent] : i \in 1..n}

DeleteVectorsByFilePath ==
  /\ \E file_path \in {PathTxt, PathGone}, klg_base_code \in KbCodes \cup {"none"},
        vector_db \in BOOLEAN, env \in DeleteEnvs :
       LET d == delete_vectors_by_file_path(
                  [docs |-> doc_documents, rows |-> doc_document_chunks,
                   vecs |-> milvus],
                  file_path, klg_base_code, env.db, vector_db, env.milvus_ok)
       IN /\ doc_documents' = d.docs
          /\ doc_document_chunks' = d.rows
          /\ milvus' = d.vecs
          /\ call' = [op |-> "delete_vectors_by_file_path", file_path |-> file_path,
                      klg_base_code |-> klg_base_code, returned |-> d.returned]
  /\ UNCHANGED <<taskVars, apiVars, cliVars, next_doc_id, next_chunk_row,
                 doc_parse_batches, next_pk, md_files>>

InitDeleteByPath ==
  /\ \E kb \in KbCodes \cup {"none"}, n \in 0..MaxChunks, m \in 0..MaxChunks,
        file_id \in {1, Timestamp} :
       /\ doc_documents = StoredDocument(kb)
       /\ doc_document_chunks = StoredRows(n, file_id)
       /\ next_chunk_row = n + 1
       /\ milvus = StoredVectors(m)
       /\ next_pk = m + 1
  /\ next_doc_id = 2
  /\ task_statuses = <<>>
  /\ pc = <<>>
  /\ loc = <<>>
  /\ doc_parse_batches = {}
  /\ md_files = {}
  /\ next_batch = 1
  /\ request = NoRequest
  /\ response = NoResponse
  /\ call = NoCall
  /\ chunks_output = <<>>

SpecDeleteByPath == InitDeleteByPath /\ [][DeleteVectorsByFilePath]_vars

(***************************************************************************)
(* The command-line pipeline on its own: calls of process_document and     *)
(* is_file_processed.  An earlier run may have left a chunk file holding   *)
(* an empty list.                                                          *)
(***************************************************************************)
InitCli ==
  /\ chunks_output \in {<<>>, (basename(PathTxt) :> <<>>)}
  /\ task_statuses = <<>>
  /\ pc = <<>>
  /\ loc = <<>>
  /\ doc_documents = <<>>
  /\ next_doc_id = 1
  /\ doc_document_chunks = {}
  /\ next_chunk_row = 1
  /\ doc_parse_batches = {}
  /\ milvus = {}
  /\ next_pk = 1
  /\ md_files = {}
  /\ next_batch = 1
  /\ request = NoRequest
  /\ response = NoResponse
  /\ call = NoCall

NextCli == CliCall \/ IsFileProcessed

SpecCli == InitCli /\ [][NextCli]_vars

(***************************************************************************)
(* batch_process_documents(directory, build_index, skip_processed),        *)
(* Document_Vectorization/main.py:382-542: one run over a directory, start *)
(* to return.  The directory is a listing of files that stays as it is     *)
(* from run to run.                                                        *)
(***************************************************************************)
\* main.py:420-421 (command line): the default file types, in this order
supported_extensions == <<".txt", ".md", ".markdown", ".csv", ".xlsx">>

\* main.py:428-431 (command line): one recursive glob per extension, the
\* results one after the other
RECURSIVE glob_files(_, _)
glob_files(directory, k) ==
  IF k > Len(supported_extensions) THEN <<>>
  ELSE SelectSeq(directory,
                 LAMBDA p : get_file_extension(p) = supported_extensions[k])
         \o glob_files(directory, k + 1)

\* main.py:113-349 (command line) with its build_index argument: without it
\* the chunk file is written and nothing is stored
process_document_build_index(st, file_path, build_index, skip_processed, env) ==
  LET vectorized_chunks == vectorize(chunk_document(env.content, file_path))
  IN IF build_index THEN process_document(st, file_path, skip_processed, env)
     ELSE IF skip_processed /\ has_cached_chunks(st.output, file_path)
     THEN [st |-> st, returned |-> st.output[basename(file_path)], steps |-> <<>>]
     ELSE IF \/ ~cli_readable(file_path)
             \/ file_path \notin ExistingFiles
             \/ env.content = "empty"
     THEN [st |-> st, returned |-> <<>>, steps |-> <<>>]
     ELSE [st |-> [st EXCEPT !.output =
                     (basename(file_path) :> vectorized_chunks) @@ st.output],
           returned |-> vectorized_chunks,
           steps |-> <<"chunk_document", "vectorize">>]

\* main.py:441-468 (command line), the loop over the files from the i-th
\* on.  A file that is_file_processed accepts is not handed to
\* process_document: its chunk file is loaded.  Only the last file is
\* processed with build_index.
RECURSIVE batch_loop(_, _, _, _, _, _)
batch_loop(acc, files, i, build_index, skip_processed, env) ==
  IF i > Len(files) THEN acc
  ELSE
    LET file_path == files[i]
        should_build_index == build_index /\ i = Len(files)
        r == process_document_build_index(acc.st, file_path, should_build_index,
                                          TRUE, env)
    IN IF skip_processed /\ is_file_processed(acc.st.output, file_path)
       THEN batch_loop([acc EXCEPT
                          !.all_chunks = @ \o acc.st.output[basename(file_path)],
                          !.skipped_count = @ + 1],
                       files, i + 1, build_index, skip_processed, env)
       ELSE batch_loop([st |-> r.st,
                        all_chunks |-> acc.all_chunks \o r.returned,
                        processed_count |-> acc.processed_count
                                            + (IF r.returned # <<>> THEN 1 ELSE 0),
                        skipped_count |-> acc.skipped_count,
                        steps |-> acc.steps \o r.steps],
                       files, i + 1, build_index, skip_processed, env)

\* main.py:482-503 (command line): every chunk keeps its file_id as
\* original_file_id ("" without one) and gets its position in all_chunks as
\* chunk_index unless it has one
unified_chunks(all_chunks) ==
  [i \in 1..Len(all_chunks) |->
     [all_chunks[i] EXCEPT
        !.original_file_id = all_chunks[i].file_id,
        !.chunk_index = IF @ = Absent THEN i - 1 ELSE @]]

\* main.py:522-523 (command line): "batch_processing_" and the second of
\* the run; a re-run falls into the same second or into a later one
BatchTimes == {"batch_processing_1700000000", "batch_processing_1700000001"}
batch_doc_path(now) == [dir |-> "", name |-> now, ext |-> ""]

\* main.py:473-542 (command line), the unified index over all_chunks: the
\* vectors are stored, a document row for the run is saved, the chunk rows
\* are written
unified_index(st, all_chunks, env, now) ==
  LET v == store_vectors(env.vector_db, unified_chunks(all_chunks), env.insert_ok,
                         st.next_pk)
      d == save_document_info(st.docs, st.next_doc_id, batch_doc_path(now),
                              Hash(batch_doc_path(now)), "none", env.db_save)
      m == store_metadata(st.rows, st.next_row, v.chunks, d.id, env.db_meta)
  IN [docs |-> d.docs, next_doc_id |-> d.next_id,
      vecs |-> st.vecs \cup v.inserted,
      next_pk |-> st.next_pk + Cardinality(v.inserted),
      rows |-> m.rows, next_row |-> m.next_row,
      output |-> st.output]

\* main.py:382-542 (command line), batch_process_documents: the stores and
\* chunk files afterwards, the files found, the collaborators called
cli_batch_process_documents(st, directory, build_index, skip_processed, env, now) ==
  LET files == glob_files(directory, 1)
      done == batch_loop([st |-> st, all_chunks |-> <<>>, processed_count |-> 0,
                          skipped_count |-> 0, steps |-> <<>>],
                         files, 1, build_index, skip_processed, env)
  IN IF files = <<>>
     THEN [st |-> st, files |-> files, steps |-> <<>>, skipped_count |-> 0]
     ELSE IF build_index /\ Len(files) > 1
     THEN [st |-> unified_index(done.st, done.all_chunks, env, now),
           files |-> files,
           steps |-> done.steps \o <<"store_vectors", "save_document_info",
                                     "store_metadata">>,
           skipped_count |-> done.skipped_count]
     ELSE [st |-> done.st, files |-> files, steps |-> done.steps,
           skipped_count |-> done.skipped_count]

\* the listings of a directory: files in the order the file system yields
\* them, no file twice
Directories ==
  {d \in SeqsUpTo({PathTxt, PathTxtCopy, PathMd, PathPdf}, MaxFiles) :
     \A i, j \in 1..Len(d) : d[i] = d[j] => i = j}

\* the collaborators of one run: the database answers or not, the vector
\* store accepts the insert or there is no connection
BatchEnvs == {e \in CliEnvs : e.db_save = e.db_meta /\ e.insert_ok}

\* one run over the directory
BatchProcessDocuments ==
  /\ call.runs < MaxRuns
  /\ \E build_index \in BOOLEAN, skip_processed \in BOOLEAN, env \in BatchEnvs,
        now \in BatchTimes :
       LET r == cli_batch_process_documents(CliState, call.directory, build_index,
                                        skip_processed, env, now) IN
       /\ CliWrites(r)
       /\ call' = [op |-> "batch_process_documents",
                   directory |-> call.directory,
                   runs |-> call.runs + 1,
                   build_index |-> build_index,
                   skip_processed |-> skip_processed,
                   files |-> r.files,
                   skipped_count |-> r.skipped_count,
                   steps |-> r.steps]
  /\ UNCHANGED <<taskVars, apiVars>>

InitBatch ==
  /\ call \in {[op |-> "none", directory |-> d, runs |-> 0] : d \in Directories}
  /\ chunks_output = <<>>
  /\ task_statuses = <<>>
  /\ pc = <<>>
  /\ loc = <<>>
  /\ doc_documents = <<>>
  /\ next_doc_id = 1
  /\ doc_document_chunks = {}
  /\ next_chunk_row = 1
  /\ doc_parse_batches = {}
  /\ milvus = {}
  /\ next_pk = 1
  /\ md_files = {}
  /\ next_batch = 1
  /\ request = NoRequest
  /\ response = NoResponse

SpecBatch == InitBatch /\ [][BatchProcessDocuments]_vars

(***************************************************************************)
(* The properties checked.                                                 *)
(***************************************************************************)
Terminal == {"completed", "failed"}

\* C1: once a task's status is COMPLETED or FAILED no step changes it: no
\* step of process_document_complete moves a task from COMPLETED to FAILED
\* or from FAILED to anything else, and a task that has ended is not run
\* again.
C1_TerminalStatusIsFinal ==
  [][\A t \in Tasks :
       /\ task_statuses[t].status \in Terminal
            => task_statuses'[t].status = task_statuses[t].status
       /\ pc[t] = "done" => pc'[t] = "done"]_vars

\* a task that is about to leave line 472 after a run in which the vector
\* store acknowledged the insert, the document row is durable and its status
\* was advanced to '2', and all five stages are completed or skipped
RanClean(t) ==
  /\ pc[t] = "set_result"
  /\ "no_vectors" \notin loc[t].swallowed
  /\ loc[t].document_id < ProvisionalThreshold
  /\ HasDoc(doc_documents, task_statuses[t].file_path)
  /\ doc_documents[task_statuses[t].file_path].status = 2
  /\ \A s \in StageNames : task_statuses[t].progress[s] \in {"completed", "skipped"}

\* C2: a run of process_document_complete in which every stage and every
\* external call succeeds ends with status COMPLETED, no error, a result,
\* all five stages COMPLETED or SKIPPED and the document's status '2'.
C2_CleanRunCompletes ==
  [][\A t \in Tasks :
       (RanClean(t) /\ pc'[t] # pc[t])
         => /\ pc'[t] = "done"
            /\ task_statuses'[t].status = "completed"
            /\ task_statuses'[t].error = "none"
            /\ task_statuses'[t].result # "none"
            /\ \A s \in StageNames :
                 task_statuses'[t].progress[s] \in {"completed", "skipped"}
            /\ doc_documents'[task_statuses[t].file_path].status = 2]_vars

\* the stage a raised stage failure belongs to, 0 for other errors
FailedStage(exc) ==
  CASE exc = "preprocess_failed" -> 1
    [] exc = "chunking_failed" -> 2
    [] exc = "vectorization_failed" -> 3
    [] OTHER -> 0

StageRank(v) == CASE v = "pending" -> 0 [] v = "processing" -> 1 [] OTHER -> 2

\* the stage statuses of a task in the fixed order
StageSeq(t) == [i \in 1..Len(Stages) |-> task_statuses[t].progress[Stages[i]]]

StageOrder(t) ==
  LET r == StageSeq(t)
      n == Len(Stages)
  IN /\ \A i \in 1..n : r[i] = "processing"
          => \A j \in 1..n : r[j] = "processing" => j = i
     /\ \A j \in 2..n : r[j] \in {"processing", "completed"}
          => \A i \in 1..(j - 1) : r[i] \in {"completed", "skipped"}
     /\ \A i \in 1..(n - 1) : r[i] \in {"pending", "processing"}
          => \A j \in (i + 1)..n : r[j] = "pending"

NoStageMovesBack ==
  \A t \in Tasks :
    task_statuses'[t].progress # task_statuses[t].progress
      => \A s \in StageNames :
           LET old == task_statuses[t].progress[s]
               new == task_statuses'[t].progress[s]
           IN /\ StageRank(new) >= StageRank(old)
              /\ StageRank(old) = 2 => new = old

\* C4: in every reachable state the stages of a task respect the order
\* preprocessing, chunking, vectorization, indexing, storage: at most one
\* is PROCESSING, every stage before a PROCESSING or COMPLETED one is
\* COMPLETED or SKIPPED, every stage after a PENDING or PROCESSING one is
\* PENDING; and no step moves a stage status backward.
C4_StageOrder ==
  /\ [](\A t \in Tasks : StageOrder(t))
  /\ [][NoStageMovesBack]_vars

\* the storage stage of a direct-text task is running: the four stages
\* before it are skipped or completed
C4_Witness ==
  \E t \in Tasks :
    /\ task_statuses[t].progress["storage"] = "processing"
    /\ task_statuses[t].progress["preprocessing"] = "skipped"
    /\ task_statuses[t].progress["indexing"] = "completed"

MemberStatuses(batch_id) ==
  {task_statuses[t].status : t \in {u \in Tasks : task_statuses[u].batch_id = batch_id}}

\* C5: for every combination of member statuses get_batch_status reports
\* FAILED if a member is FAILED, else PROCESSING if a member is PENDING or
\* PROCESSING, else COMPLETED.
C5_BatchAggregation ==
  (request.op = "batch_status" /\ response.code = 200)
    => LET m == MemberStatuses(response.batch_id) IN
       /\ m # {}
       /\ "failed" \in m => response.overall_status = "failed"
       /\ ("failed" \notin m /\ m \cap {"pending", "processing"} # {})
            => response.overall_status = "processing"
       /\ m = {"completed"} => response.overall_status = "completed"

\* a batch with a failed and an unfinished member was reported FAILED
C5_Witness ==
  /\ request.op = "batch_status"
  /\ response.code = 200
  /\ {"failed", "pending"} \subseteq MemberStatuses(response.batch_id)
  /\ response.overall_status = "failed"

\* the list is empty, or names a missing file or an unsupported extension
HasInvalidPath(file_paths) ==
  \/ file_paths = <<>>
  \/ \E i \in 1..Len(file_paths) :
       \/ file_paths[i] \notin ExistingFiles
       \/ ~(is_preprocessing_required(file_paths[i])
            \/ is_direct_processing_supported(file_paths[i]))

\* the step serves a request: only a request handler writes the request and
\* the reply or adds tasks to the registry
IsSubmission ==
  \/ request' # request
  \/ response' # response
  \/ Len(task_statuses') # Len(task_statuses)

\* C6: batch submission validates all-or-nothing: a request with a missing
\* path, an unsupported extension or an empty list is rejected with a
\* validation error and the registry is unchanged: no task is created or
\* queued for any path of the request, the valid ones included.
C6_AllOrNothingValidation ==
  [][(/\ IsSubmission
      /\ request'.op = "batch_process"
      /\ HasInvalidPath(request'.file_paths))
       => /\ response'.code = 400
          /\ task_statuses' = task_statuses
          /\ pc' = pc]_vars

\* a request naming a supported existing file and a missing one was
\* refused for the missing one, and there is no task
C6_Witness ==
  /\ request.op = "batch_process"
  /\ request.file_paths = <<PathTxt, PathGone>>
  /\ response.code = 400
  /\ response.detail = "file_missing"
  /\ response.at = 2
  /\ task_statuses = <<>>

\* C7: no error raised inside an accepted task escapes it: whenever the
\* call has ended without a result, it returned normally with status FAILED
\* and the error field set.
C7_ErrorsStayInTask ==
  \A t \in Tasks :
    (pc[t] \in {"done", "escaped"} /\ task_statuses[t].result = "none")
      => /\ pc[t] = "done"
         /\ task_statuses[t].status = "failed"
         /\ task_statuses[t].error # "none"

\* C8: for one document path the status stored in the metadata store never
\* decreases over UNPARSED(0) < PARSED(1) < VECTORIZED(2) while the row
\* exists, over any sequence of tasks, re-ingestion included.
C8_StatusNeverDecreases ==
  [][\A p \in DOMAIN doc_documents :
       p \in DOMAIN doc_documents'
         => doc_documents'[p].status >= doc_documents[p].status]_vars

\* C9: every chunk store_vectors returns carries a vector_id only if the
\* store acknowledged a record for that very chunk, and the vector_id is
\* that record's key; also when chunks with invalid vectors are skipped,
\* the store is unavailable or the insert fails.
C9_VectorIdIsAcknowledgedKey ==
  (call.op = "store_vectors" /\ call.outcome # "pending")
    => \A i \in 1..Len(call.returned) :
         call.returned[i].vector_id # Absent
           => \E r \in call.inserted :
                /\ r.id = call.returned[i].vector_id
                /\ r.content = call.chunks[i].content

\* C10: if the vector-store delete fails after the metadata rows of a
\* document were deleted, the result for that file reports a partial
\* failure: it does not say vector_deleted = true with no error.
C10_PartialDeleteReported ==
  (request.op = "delete_documents" /\ response.code = 200)
    => \A i \in 1..Len(response.results) :
         (call.calls[i].rows_deleted /\ call.calls[i].milvus = "failed")
           => ~(response.results[i].vector_deleted
                /\ response.results[i].error = "none")

\* a step of the delete loop: delete_documents has handled the path k
DeleteStep == call.op = "delete_documents" /\ call'.op = "delete_documents"
              /\ call'.i = call.i + 1

\* C11: after delete_vectors_by_file_path returned true for a document, with
\* the vector store connected and its delete raising no error, the vector
\* store holds no vector that was inserted for that document.
C11_DeleteRemovesVectors ==
  [][DeleteStep =>
       LET k == call.i
           file_path == request.file_paths[k] IN
       (call'.results[k].vector_deleted /\ call'.calls[k].milvus = "deleted")
         => \A v \in milvus' : v.content[1] # file_path]_vars

\* C12: after delete_vectors_by_file_path returned true for a document, the
\* metadata store holds no chunk row whose document_id is the id of that
\* document, whichever pipeline wrote the rows.
C12_DeleteRemovesChunkRows ==
  [][DeleteStep =>
       LET k == call.i
           file_path == request.file_paths[k] IN
       call'.results[k].vector_deleted
         => \A r \in doc_document_chunks' :
              r.document_id # doc_documents[file_path].id]_vars

\* C13: delete_documents returns exactly one result per input path, in the
\* order of the input, whatever happens for single files: while the loop
\* runs it has one result and one deletion attempt per path handled, and it
\* replies only after the last path.
C13_OneResultPerPath ==
  /\ call.op = "delete_documents"
       => /\ Len(call.results) = call.i - 1
          /\ Len(call.calls) = call.i - 1
          /\ \A k \in 1..Len(call.results) :
               call.results[k].file_path = request.file_paths[k]
          /\ response.code = 200 <=> call.i = Len(request.file_paths) + 1
  /\ (request.op = "delete_documents" /\ response.code = 200)
       => /\ Len(response.results) = Len(request.file_paths)
          /\ \A k \in 1..Len(request.file_paths) :
               response.results[k].file_path = request.file_paths[k]

\* a reply whose first file failed (missing file, exception) and whose
\* second file was deleted all the same
C13_Witness ==
  /\ request.op = "delete_documents"
  /\ response.code = 200
  /\ Len(response.results) = 2
  /\ response.results[1].error = "exception"
  /\ response.results[2].vector_deleted

\* what one call of the adapter did to the two stores: the delete of the
\* vector store ran without error, the deletes of the metadata store were
\* committed
StoresModified(adapter) ==
  IF adapter.milvus = "deleted" /\ adapter.rows_deleted THEN "vectors_and_metadata"
  ELSE IF adapter.milvus = "deleted" THEN "vectors_only"
  ELSE IF ~adapter.rows_deleted THEN "nothing"
  ELSE "metadata_only"

\* what the caller is told about one file
Outcome(result) ==
  [vector_deleted |-> result.vector_deleted,
   md_file_deleted |-> result.md_file_deleted,
   error |-> result.error]

\* C14: the per-file result identifies which store was modified: two files
\* for which the adapter did different things among (vectors deleted and
\* metadata deleted), (vectors deleted, metadata delete failed), (nothing
\* deleted) get different results.
C14_ResultIdentifiesStores ==
  call.op = "delete_documents"
    => \A i, j \in 1..Len(call.results) :
         LET a == StoresModified(call.calls[i])
             b == StoresModified(call.calls[j]) IN
         (a # b /\ {a, b} \subseteq {"vectors_and_metadata", "vectors_only", "nothing"})
           => Outcome(call.results[i]) # Outcome(call.results[j])

\* C15: storing is idempotent per file: however often the storage path has
\* run for a file, the metadata store holds one chunk row per document and
\* chunk_index of that file, and the vector store one vector per chunk.
C15_StoringIsIdempotent ==
  /\ \A r1, r2 \in doc_document_chunks :
       (/\ r1.document_id = r2.document_id
        /\ r1.chunk_index = r2.chunk_index
        /\ r1.content[1] = r2.content[1]) => r1 = r2
  /\ \A v1, v2 \in milvus : v1.content = v2.content => v1 = v2

\* C16: a call of process_document with skip_processed, made while the
\* chunk file of the path holds a non-empty list, returns that list, calls
\* neither chunker nor vectorizer nor storage adapter, and leaves the two
\* stores and the chunk files as they were.
C16_CacheHitDoesNothing ==
  [][(/\ call'.op = "process_document"
      /\ call'.skip_processed
      /\ basename(call'.file_path) \in DOMAIN chunks_output
      /\ chunks_output[basename(call'.file_path)] # <<>>)
       => /\ call'.returned = chunks_output[basename(call'.file_path)]
          /\ call'.steps = <<>>
          /\ UNCHANGED <<storeVars, cliVars>>]_vars

\* a call served from the chunk file
C16_Witness ==
  /\ call.op = "process_document"
  /\ call.skip_processed
  /\ call.steps = <<>>
  /\ call.returned # <<>>
  /\ call.returned = chunks_output[basename(call.file_path)]

\* C17: the chunk file consulted for a path was written for that very path:
\* a list process_document returns without processing, and a chunk file
\* that makes is_file_processed answer true, hold chunks of the path asked
\* for.
C17_CacheBelongsToFile ==
  /\ (call.op = "process_document" /\ call.steps = <<>>)
       => \A i \in 1..Len(call.returned) :
            call.returned[i].content[1] = call.file_path
  /\ (call.op = "is_file_processed" /\ call.returned)
       => \A i \in 1..Len(chunks_output[basename(call.file_path)]) :
            chunks_output[basename(call.file_path)][i].content[1] = call.file_path

\* C18: for an input vector of n entries the vector written to the store
\* has exactly Dim (768) entries; its first min(n, Dim) entries are those of
\* the input and all further entries are zero.
C18_DimensionNormalization ==
  (call.op = "normalize_vector" /\ call.done)
    => LET n == Len(call.vector) IN
       /\ Len(call.stored) = Dim
       /\ \A i \in 1..Dim :
            call.stored[i] = IF i <= n THEN call.vector[i] ELSE 0

\* a vector of 500 entries has been padded
C18_Witness ==
  /\ call.op = "normalize_vector"
  /\ call.done
  /\ Len(call.vector) = 500
  /\ call.vector[500] # 0
  /\ Len(call.stored) = Dim

StorageSteps ==
  {"save_document", "requery", "create_batch", "store_vectors", "store_metadata"}

C20_SplitterProgress ==
  [][(call.op = "_split_long_text" /\ call'.op = "_split_long_text")
       => \/ call'.outcome = "returned"
          \/ call'.outcome = "running" /\ call'.start > call.start]_vars

\* C21: every chunk the fixed-length splitter emits has at most chunk_size
\* characters, whether the window ends at a separator or is cut hard.
C21_ChunkAtMostChunkSize ==
  call.op = "_split_long_text"
    => \A i \in 1..Len(call.chunks) : Len(call.chunks[i]) <= call.chunk_size

ValidConfiguration(c) ==
  c.chunk_overlap < c.min_chunk_size /\ c.min_chunk_size <= c.chunk_size

DropFirst(text, n) == SubSeq(text, n + 1, Len(text))
LastOf(text, n) == SubSeq(text, Len(text) - n + 1, Len(text))

RECURSIVE WithoutOverlap(_, _, _)
WithoutOverlap(chunks, overlap, i) ==
  IF i > Len(chunks) THEN <<>>
  ELSE (IF i = 1 THEN chunks[1] ELSE DropFirst(chunks[i], overlap))
         \o WithoutOverlap(chunks, overlap, i + 1)

\* C22: with chunk_overlap < min_chunk_size <= chunk_size the chunks of a
\* returned call cover the text exactly: the first chunk followed by the
\* later ones without their first chunk_overlap characters is the text, and
\* the characters left out are the last chunk_overlap characters of the
\* chunk before.
C22_ChunkCoverage ==
  (call.op = "_split_long_text" /\ call.outcome = "returned"
     /\ ValidConfiguration(call))
    => /\ WithoutOverlap(call.chunks, call.chunk_overlap, 1) = call.text
       /\ \A i \in 2..Len(call.chunks) :
            /\ Len(call.chunks[i]) >= call.chunk_overlap
            /\ Len(call.chunks[i - 1]) >= call.chunk_overlap
            /\ SubSeq(call.chunks[i], 1, call.chunk_overlap)
                 = LastOf(call.chunks[i - 1], call.chunk_overlap)

\* a returned call with a valid configuration and chunks that share a
\* character, the first one ended at a separator before the window's end
C22_Witness ==
  /\ call.op = "_split_long_text" /\ call.outcome = "returned"
  /\ ValidConfiguration(call)
  /\ call.chunk_overlap >= 1
  /\ Len(call.chunks) >= 2
  /\ Len(call.chunks[1]) <= call.chunk_size
  /\ call.chunks[1][Len(call.chunks[1])] = " "

ChunkDocumentEnded == call.op = "chunk_document" /\ call.outcome # "called"

\* the heading lines of a document as written, and what re.split makes of it
HeadingLines(content) == re_findall("header", content, 0)
SectionsOf(content) == re_split("header", TRUE, content, 0)

\* markdown with two or more heading lines and nothing before the first,
\* each heading followed by a body that fits a chunk together with it
HeadingsWithShortBodies(c) ==
  LET sections == SectionsOf(c.content)
  IN /\ c.file_path.ext = ".md"
     /\ Len(HeadingLines(c.content)) >= 2
     /\ strip(sections[1]) = <<>>
     /\ \A j \in 1..Len(HeadingLines(c.content)) :
          /\ strip(sections[2 * j + 1]) # <<>>
          /\ Len(strip(sections[2 * j])) + 2 + Len(strip(sections[2 * j + 1]))
               <= c.self.chunk_size

\* C23: chunk_document on markdown with k >= 2 heading lines, each followed
\* by a short body, returns exactly k chunks of type section, the i-th of
\* which begins with the i-th heading line.
C23_StructuralSections ==
  (ChunkDocumentEnded /\ HeadingsWithShortBodies(call))
    => /\ call.outcome = "returned"
       /\ Len(call.returned) = Len(HeadingLines(call.content))
       /\ \A i \in 1..Len(call.returned) :
            /\ call.returned[i].metadata.chunk_type = "section"
            /\ LET heading == HeadingLines(call.content)[i]
               IN SubSeq(call.returned[i].content, 1, Len(heading)) = heading

\* C24: the chunk ids of the list chunk_document returns are 0, 1, ..., n-1
\* in the order of the list, for every document, path and strategy.
C24_ChunkIdsContiguous ==
  (ChunkDocumentEnded /\ call.outcome = "returned")
    => \A i \in 1..Len(call.returned) :
         call.returned[i].metadata.chunk_id = i - 1

WhitespaceOnly(content) == \A i \in 1..Len(content) : content[i] \in Whitespace

\* C25: for empty and for whitespace-only content chunk_document returns
\* the empty list and does not raise, whatever the extension of the path.
C25_EmptyContentNoChunks ==
  (ChunkDocumentEnded /\ WhitespaceOnly(call.content))
    => call.outcome = "returned" /\ call.returned = <<>>

\* whitespace-only content of more than one character, given to the
\* fixed-length strategy of a chunker that would never return on a text
C25_Witness ==
  /\ ChunkDocumentEnded
  /\ WhitespaceOnly(call.content) /\ Len(call.content) >= 2
  /\ call.file_path.ext = ".pdf"
  /\ call.self.chunk_overlap = call.self.chunk_size + 1
  /\ call.returned = <<>>

\* statuses of doc_documents: '0' not parsed, '1' parsed, '2' vectorized
PARSED == 1

\* C27: whenever the chunking stage of a task starts (main.py:330), the
\* metadata store holds a row for the task's file whose status is PARSED or
\* later, on the conversion path and on the direct path, also when the file
\* is ingested for the first time.
C27_ParsedBeforeChunking ==
  [][\A t \in Tasks :
       (pc[t] = "chunk_start" /\ pc'[t] = "chunk")
         => /\ HasDoc(doc_documents', task_statuses[t].file_path)
            /\ doc_documents'[task_statuses[t].file_path].status >= PARSED]_vars

\* a poll that ends the wait: the task is completed, failed or in error, or
\* the status request itself failed
PollReports(c) ==
  \/ ~c.request_ok
  \/ "status" \in c.status.keys /\ c.status.status \in {"completed", "failed", "error"}

\* C28: wait_for_completion always returns and never raises; it returns
\* the polled status as soon as a poll reports completed, failed or error
\* or the status request fails, and otherwise a timeout error once the
\* deadline has passed; no poll starts after the deadline, so there are at
\* most as many polls as intervals begin before it.
C28_WaitReturns ==
  call.op = "wait_for_completion"
    => /\ call.outcome \in {"running", "returned"}
       /\ call.polls >= 1
            => /\ call.poll_started - call.start_time < call.timeout
               /\ (call.polls - 1) * call.check_interval < call.timeout
       /\ (call.outcome = "running" /\ call.polls >= 1 /\ call.at # "poll")
            => ~PollReports(call)
       /\ call.outcome = "returned"
            => \/ /\ call.polls >= 1 /\ PollReports(call)
                  /\ call.returned = call.status
               \/ /\ call.polls >= 1 => ~PollReports(call)
                  /\ call.returned = TimeoutError
                  /\ call.now - call.start_time >= call.timeout

\* C29: a step of one task leaves the registry entry of every other task
\* as it was (status, progress, result and error), whatever the other
\* tasks are doing and however the steps are interleaved.
C29_TaskIsolation ==
  [][\A t \in DOMAIN pc :
       pc'[t] # pc[t]
         => \A u \in DOMAIN pc \ {t} : task_statuses'[u] = task_statuses[u]]_vars

\* one task is in its except clause, marked failed, while the other is in
\* the middle of its run with its own progress
C29_Witness ==
  \E t, u \in Tasks :
    /\ t # u
    /\ pc[t] = "except_error" /\ task_statuses[t].status = "failed"
    /\ task_statuses[t].progress["chunking"] = "completed"
    /\ pc[u] = "chunk" /\ task_statuses[u].status = "processing"
    /\ task_statuses[u].progress["chunking"] = "processing"

\* C30: a run of batch_process_documents with skip_processed that follows a
\* run over the same directory and finds a non-empty chunk file for every
\* file of it inserts nothing into the vector store and writes nothing to the
\* metadata store: documents, chunk rows, vectors and the keys handed out are
\* after the run what they were before it.
AllCached(files) ==
  /\ files # <<>>
  /\ \A i \in 1..Len(files) : is_file_processed(chunks_output, files[i])

C30_RerunLeavesStores ==
  [][(/\ call.op = "batch_process_documents"
      /\ call'.op = "batch_process_documents"
      /\ call'.runs = call.runs + 1
      /\ call'.skip_processed
      /\ AllCached(call'.files))
       => UNCHANGED <<doc_documents, next_doc_id, doc_document_chunks,
                      next_chunk_row, milvus, next_pk>>]_vars

\* text with k >= 1 heading lines and nothing before the first, each heading
\* followed by a body that fits a chunk together with it
SectionsFit(c) ==
  /\ Len(HeadingLines(c.content)) >= 1
  /\ strip(SectionsOf(c.content)[1]) = <<>>
  /\ \A j \in 1..Len(HeadingLines(c.content)) :
       /\ strip(SectionsOf(c.content)[2 * j + 1]) # <<>>
       /\ Len(section_text(strip(SectionsOf(c.content)[2 * j]),
                           strip(SectionsOf(c.content)[2 * j + 1])))
            <= c.self.chunk_size

\* C31: _chunk_by_structure on text with k heading lines and nothing before
\* the first, each section fitting a chunk, returns k chunks, the i-th being
\* the i-th heading and its body: every section once, the last included.
C31_SectionsOnce ==
  (call.op = "_chunk_by_structure" /\ call.outcome # "called" /\ SectionsFit(call))
    => /\ call.outcome = "returned"
       /\ Len(call.returned) = Len(HeadingLines(call.content))
       /\ \A i \in 1..Len(HeadingLines(call.content)) :
            i <= Len(call.returned)
              => call.returned[i].content
                   = section_text(strip(SectionsOf(call.content)[2 * i]),
                                  strip(SectionsOf(call.content)[2 * i + 1]))

\* a run of three or more line ends with text before and after it
HasParagraphBreak(content) ==
  \E p \in 1..Len(content) :
    /\ content[p] \notin Whitespace
    /\ RunLen(content, p, {NL}) >= 3
    /\ p + RunLen(content, p, {NL}) < Len(content)
    /\ content[p + RunLen(content, p, {NL}) + 1] \notin Whitespace

\* the text holds two line ends one after the other
HasBlankLine(text) ==
  \E p \in 1..(Len(text) - 1) : text[p] = NL /\ text[p + 1] = NL

\* C32: the text _clean_document returns for an input with a run of three or
\* more line ends between two pieces of text holds two line ends one after
\* the other, and _has_paragraphs finds the paragraph boundary in it.
C32_CleaningKeepsParagraphs ==
  (call.op = "_clean_document" /\ call.outcome = "returned"
     /\ HasParagraphBreak(call.content))
    => /\ HasBlankLine(call.returned)
       /\ has_paragraphs(call.returned)

\* the sentences the semantic strategy merges, stripped
StrippedSentences(content) ==
  [j \in 1..Len(sentences_of(re_split("sentence_end", TRUE, content, 0))) |->
     strip(sentences_of(re_split("sentence_end", TRUE, content, 0))[j])]

\* C33: _chunk_by_semantic emits a chunk of type semantic_split only when a
\* single sentence is longer than chunk_size: no unit merged from sentences
\* that each fit exceeds chunk_size, separators included.
C33_MergedUnitsFit ==
  (call.op = "_chunk_by_semantic" /\ call.outcome = "returned"
     /\ \A j \in 1..Len(StrippedSentences(call.content)) :
          Len(StrippedSentences(call.content)[j]) <= call.self.chunk_size)
    => \A i \in 1..Len(call.returned) :
         /\ call.returned[i].metadata.chunk_type = "semantic"
         /\ Len(call.returned[i].content) <= call.self.chunk_size

\* C34: a call of delete_vectors_by_file_path that names a knowledge-base
\* code other than the one in the document row of the path returns False and
\* leaves the document rows, the chunk rows and the vectors as they were.
C34_OtherCodeDeletesNothing ==
  [][(/\ call'.op = "delete_vectors_by_file_path"
      /\ call'.klg_base_code # "none"
      /\ HasDoc(doc_documents, call'.file_path)
      /\ doc_documents[call'.file_path].knlg_base_code # call'.klg_base_code)
       => /\ call'.returned = FALSE
          /\ UNCHANGED <<doc_documents, doc_document_chunks, milvus>>]_vars

C34_Witness ==
  /\ call.op = "delete_vectors_by_file_path"
  /\ call.klg_base_code = "kb1"
  /\ call.returned = FALSE
  /\ HasDoc(doc_documents, call.file_path)
  /\ doc_documents[call.file_path].knlg_base_code = "kb2"
  /\ \E r \in doc_document_chunks : r.file_id = doc_documents[call.file_path].id
  /\ milvus # {}

\* C35: every task of a batch eventually has the status completed or failed
\* when every step that can be taken is taken: none stays pending or
\* processing for ever
C35_TasksTerminate ==
  \A t \in 1..2 : <>(task_statuses[t].status \in {"completed", "failed"})

\* C36: in every state a status reader can see, a task whose status is
\* completed has a result, no error, and every stage completed or skipped
C36_CompletedIsWhole ==
  \A t \in Tasks :
    task_statuses[t].status = "completed"
      => /\ task_statuses[t].result # "none"
         /\ task_statuses[t].error = "none"
         /\ \A s \in StageNames :
              task_statuses[t].progress[s] \in {"completed", "skipped"}

\* C37: once a status request for a batch has been answered with the overall
\* status completed or failed, the next status request for that batch is
\* answered with the same overall status, whatever the tasks did in between
C37_TerminalReportStays ==
  [][(/\ request.op = "batch_status"
      /\ response.code = 200
      /\ response.overall_status \in {"completed", "failed"}
      /\ request'.op = "batch_status"
      /\ request'.batch_id = request.batch_id
      /\ response'.code = 200)
     => response'.overall_status = response.overall_status]_vars

\* C38: a step of a task changes the stored status of its document to
\* VECTORIZED (2) only if store_vectors of that task inserted the vectors:
\* never after the vector store was not connected or the insert raised
C38_VectorizedOnlyAfterInsert ==
  [][\A t \in Tasks :
       LET path == task_statuses[t].file_path IN
       (/\ pc[t] = "status_vectorized"
        /\ HasDoc(doc_documents, path)
        /\ doc_documents[path].status # 2
        /\ doc_documents'[path].status = 2)
       => "no_vectors" \notin loc[t].swallowed]_vars

\* C39: when two tasks of a batch ingest the same path and both have come
\* through their storage stage, the metadata store has the row of the path,
\* a batch record under the id of that row and chunk rows under that id
C39_SamePathOneRow ==
  \A t, u \in Tasks :
    (/\ t # u
     /\ task_statuses[t].file_path = task_statuses[u].file_path
     /\ task_statuses[t].progress["storage"] = "completed"
     /\ task_statuses[u].progress["storage"] = "completed")
    => LET path == task_statuses[t].file_path IN
       /\ HasDoc(doc_documents, path)
       /\ \E b \in doc_parse_batches : b.document_id = doc_documents[path].id
       /\ \E row \in doc_document_chunks : row.document_id = doc_documents[path].id

====
